---------------------------- MODULE Spec2Model ----------------------------
(* ScribeDash: the ingestion layer of the dashboard.                        *)
(*   - scribedash/google.py : _with_retries, fetch_values,                  *)
(*                            list_sheet_titles, values_to_dataframe        *)
(*   - src/utils/google_sheets.py : GoogleSheetsConnector (cache, rate      *)
(*                            limit, get_sheet_data, get_all_sheets)        *)
(*   - scribedash/ingest.py : the loaders and their cell parsers            *)
(*   - src/utils/data_processor.py : DataProcessor                          *)
(* Strings of cells are sequences of one-character strings, so that the     *)
(* code's character-level operations can be computed.                       *)
EXTENDS Integers, Sequences, FiniteSets, TLC

VARIABLES
    component,      \* which module of the repository the behaviour exercises
    \* ---- scribedash/google.py : one invocation of _with_retries ----
    caller,         \* "direct" | "fetch_values" | "list_sheet_titles"
    fn,             \* the operation: what its n-th call does (returns v / raises)
    attempts,       \* the attempts argument
    i,              \* the loop variable of `for i in range(attempts)`
    last_err,       \* the local last_err (NoErr models None)
    rpc,            \* "loop" while the for loop runs, "done" after return/raise
    calls,          \* history: the outcome of every call of fn, in order
    delays,         \* history: every time.sleep(delay), in microseconds
    outcome,        \* what _with_retries handed to its caller
    \* ---- scribedash/google.py : one call of values_to_dataframe ----
    values,         \* the argument: a list of raw rows (lists of strings)
    df,             \* the DataFrame returned
    npc,            \* "start" before the call, "done" after it
    \* ---- src/utils/google_sheets.py : one GoogleSheetsConnector ----
    connected,      \* self.client and self.spreadsheet are both set
    cache,          \* self.cache: cache key -> [data, timestamp]
    last_request_time,  \* self.last_request_time
    clock,          \* time.time(), in seconds
    ret,            \* history: the last operation and what it returned
    log,            \* history: the get_sheet_data calls of the last operation
    nsteps,         \* history: the number of operations so far
    \* ---- scribedash/ingest.py : one call of a loader; or the table ----
    \* ---- built and cleaned by GoogleSheetsConnector.get_sheet_data  ----
    loader,         \* the loader called, or "_clean_dataframe"
    fetched,        \* what fetch_values does: returns raw values / raises
    sheet,          \* what is handed back: a SheetResult / the exception
    lpc,            \* "start" before the call, "done" after it
    \* ---- scribedash/ingest.py : one call of _parse_date_safe ----
    date_x,         \* the argument x, a string
    parsed,         \* the value returned
    dpc,            \* "start" before the call, "done" after it
    \* ---- src/utils/data_processor.py : one DataProcessor ----
    raw_data,       \* self.raw_data: tab name -> DataFrame
    processed_data, \* self.processed_data: key -> table
    st_error,       \* history: the message handed to st.error, if any
    ppc,            \* "start" before __init__, "done" after it
    reads,          \* history: the accessor calls made and their results
    \* ---- src/utils/data_processor.py : one call of a tier function ----
    tier_fn,        \* the function called
    tier_arg,       \* its argument: a number or a missing value
    tier,           \* the category returned
    tpc,            \* "start" before the call, "done" after it
    \* ---- scribedash/config.py : one call of load_settings ----
    environ,        \* os.environ: the variables read, NA for an unset one
    settings,       \* the Settings returned
    spc             \* "start" before the call, "done" after it

retryVars == <<caller, fn, attempts, i, last_err, rpc, calls, delays, outcome>>
normVars == <<values, df, npc>>
connVars == <<connected, cache, last_request_time, clock, ret, log, nsteps>>
ingestVars == <<loader, fetched, sheet, lpc>>
dateVars == <<date_x, parsed, dpc>>
procVars == <<raw_data, processed_data, st_error, ppc, reads>>
tierVars == <<tier_fn, tier_arg, tier, tpc>>
settingsVars == <<environ, settings, spc>>
vars == <<component, retryVars, normVars, connVars, ingestVars, dateVars, procVars,
          tierVars, settingsVars>>

(* ------------------------------- bounds ------------------------------- *)
MaxAttempts == 5
\* raw values: at most MaxRows rows of at most MaxCols cells
MaxRows == 2
MaxCols == 3
\* the connector is followed for MaxSteps calls from time StartTime
MaxSteps == 2
\* a loader reads a first row and at most MaxLoadRows rows under it
MaxLoadRows == 2
\* the tabs handed to a DataProcessor: at most MaxScribeRows rows of
\* 'Dataset' and MaxProviderRows rows of 'Patient Count'
MaxScribeRows == 2
MaxProviderRows == 3
\* the monthly tabs handed to a DataProcessor have at most MaxSessionRows rows
MaxSessionRows == 2
\* the accessors of a DataProcessor are followed for MaxReads calls
MaxReads == 3
StartTime == 1000

(* ====================================================================== *)
(* scribedash/google.py                                                    *)
(* ====================================================================== *)

\* def _with_retries(fn, *, attempts: int = 5, base_delay: float = 0.5, max_delay: float = 5.0)
DefaultAttempts == 5
\* base_delay and max_delay in milliseconds (0.5 s and 5.0 s)
base_delay == 500
max_delay == 5000

Min(a, b) == IF a <= b THEN a ELSE b
Max(a, b) == IF a >= b THEN a ELSE b

RECURSIVE Pow2(_)
Pow2(n) == IF n <= 0 THEN 1 ELSE 2 * Pow2(n - 1)

NoErr == [type |-> "None", call |-> 0]
\* the exception object raised by the n-th call of fn (its identity is n)
FnError(kind, n) == [type |-> kind, call |-> n]
\* RuntimeError("Unknown error in _with_retries without captured exception")
UnknownRuntimeError == [type |-> "RuntimeError", call |-> 0]

\* the kinds of exception the remote call raises: a transient transport
\* error (network, quota, 5xx) or a not-found (HttpError 404: unknown
\* spreadsheet or tab)
ErrorKinds == {"transient", "notfound"}

\* random.random() sampled in thousandths of [0, 1)
RandomSamples == {0, 500, 995}

\* (0.7 + 0.6 * random.random()), in thousandths
Jitter(r) == 700 + (6 * r) \div 10

\* a mutant: the exponential delay is not capped by max_delay
Delay_NoCap(n, r) == base_delay * Pow2(n) * Jitter(r)

\* min(max_delay, base_delay * (2 ** i)) * (0.7 + 0.6 * random.random()),
\* milliseconds times thousandths = microseconds
Delay(n, r) == Min(max_delay, base_delay * Pow2(n)) * Jitter(r)

\* the responses of the remote call: a dict that has the key read by the
\* caller ("values" / "sheets") or lacks it
NoKey == <<"no key">>
Responses == {NoKey, <<"r1", "r2">>}

\* result.get("values", []) and meta.get("sheets", [])
DictGet(resp) == IF resp = NoKey THEN <<>> ELSE resp

NoOutcome == [kind |-> "none"]
Returned(v) == [kind |-> "returned", value |-> v]
Raised(e) == [kind |-> "raised", err |-> e]

\* a call of _with_retries begins: last_err = None, the loop at i = 0.
\* fetch_values and list_sheet_titles call it with the default arguments.
FnReturns(v) == [kind |-> "ok", value |-> v]
FnRaises(kind) == [kind |-> kind, value |-> NoKey]
FnOutcomes == {FnReturns(v) : v \in Responses} \cup {FnRaises(k) : k \in ErrorKinds}

RetryStart ==
    /\ caller \in {"direct", "fetch_values", "list_sheet_titles"}
    /\ fn \in [1..Max(MaxAttempts, DefaultAttempts) -> FnOutcomes]
    /\ attempts \in IF caller = "direct" THEN 0..MaxAttempts ELSE {DefaultAttempts}
    /\ i = 0
    /\ last_err = NoErr
    /\ rpc = "loop"
    /\ calls = <<>>
    /\ delays = <<>>
    /\ outcome = NoOutcome

\* a mutant: the result of fn() is stored and the loop goes on
AttemptReturns_NoReturn ==
    /\ component = "retry"
    /\ rpc = "loop"
    /\ i < attempts
    /\ fn[Len(calls) + 1].kind = "ok"
    /\ calls' = Append(calls, fn[Len(calls) + 1])
    /\ i' = i + 1
    /\ UNCHANGED <<component, caller, fn, attempts, last_err, delays, rpc, outcome, normVars, connVars, ingestVars, dateVars, procVars, tierVars, settingsVars>>

\* one iteration of the loop in which fn() returns: `return fn()`
AttemptReturns ==
    /\ component = "retry"
    /\ rpc = "loop"
    /\ i < attempts
    /\ fn[Len(calls) + 1].kind = "ok"
    /\ calls' = Append(calls, fn[Len(calls) + 1])
    /\ outcome' = Returned(fn[Len(calls) + 1].value)
    /\ rpc' = "done"
    /\ UNCHANGED <<component, caller, fn, attempts, i, last_err, delays, normVars, connVars, ingestVars, dateVars, procVars, tierVars, settingsVars>>

\* a mutant: only the first exception is kept
CapturedErr_KeepFirst(prev, e) == IF prev = NoErr THEN e ELSE prev

\* `last_err = e`
CapturedErr(prev, e) == e

\* one iteration of the loop in which fn() raises: the except clause
\* records the exception, computes the delay, logs and sleeps
AttemptRaises(r) ==
    /\ component = "retry"
    /\ rpc = "loop"
    /\ i < attempts
    /\ fn[Len(calls) + 1].kind \in ErrorKinds
    /\ calls' = Append(calls, fn[Len(calls) + 1])
    /\ last_err' = CapturedErr(last_err, FnError(fn[Len(calls) + 1].kind, Len(calls) + 1))
    /\ delays' = Append(delays, Delay(i, r))
    /\ i' = i + 1
    /\ UNCHANGED <<component, caller, fn, attempts, rpc, outcome, normVars, connVars, ingestVars, dateVars, procVars, tierVars, settingsVars>>

\* a mutant: the function falls off its end and returns None
Exhausted_ReturnsNone ==
    /\ component = "retry"
    /\ rpc = "loop"
    /\ i >= attempts
    /\ outcome' = IF last_err # NoErr THEN Raised(last_err) ELSE Returned(NoKey)
    /\ rpc' = "done"
    /\ UNCHANGED <<component, caller, fn, attempts, i, last_err, calls, delays, normVars, connVars, ingestVars, dateVars, procVars, tierVars, settingsVars>>

\* the loop is exhausted: raise last_err, or the RuntimeError when no
\* exception was captured
Exhausted ==
    /\ component = "retry"
    /\ rpc = "loop"
    /\ i >= attempts
    /\ outcome' = IF last_err # NoErr THEN Raised(last_err)
                                      ELSE Raised(UnknownRuntimeError)
    /\ rpc' = "done"
    /\ UNCHANGED <<component, caller, fn, attempts, i, last_err, calls, delays, normVars, connVars, ingestVars, dateVars, procVars, tierVars, settingsVars>>

\* what fetch_values / list_sheet_titles hand to their caller once
\* _with_retries is over: the exception propagates, a response is read
\* with .get(key, [])
fetch_values ==
    IF outcome.kind = "returned" THEN Returned(DictGet(outcome.value)) ELSE outcome

NextRetry ==
    \/ AttemptReturns
    \/ \E r \in RandomSamples : AttemptRaises(r)
    \/ Exhausted

\* no call of _with_retries is under way (another module is exercised)
RetryIdle ==
    /\ caller = "none" /\ fn = <<>> /\ attempts = 0 /\ i = 0
    /\ last_err = NoErr /\ rpc = "idle" /\ calls = <<>> /\ delays = <<>>
    /\ outcome = NoOutcome

(* ---------------------- values_to_dataframe --------------------------- *)
\* A string is a sequence of characters; "" is <<>>.
\* A cell or a column label of a DataFrame is a string, a number
\* (m / 10^e), an integer label (RangeIndex) or a missing value.
Str(x) == [t |-> "str", s |-> x, m |-> 0, e |-> 0]
IntLabel(k) == [t |-> "int", s |-> <<>>, m |-> k, e |-> 0]
Num(mant, exp) == [t |-> "num", s |-> <<>>, m |-> mant, e |-> exp]
NA == [t |-> "na", s |-> <<>>, m |-> 0, e |-> 0]

\* pd.DataFrame(): no columns, no rows
EmptyDataFrame == [columns |-> <<>>, data |-> <<>>]
\* df.empty
DfEmpty(d) == Len(d.columns) = 0 \/ Len(d.data) = 0

StrRow(r) == [j \in 1..Len(r) |-> Str(r[j])]

RECURSIVE SeqMax(_)
SeqMax(q) == IF q = <<>> THEN 0 ELSE Max(Head(q), SeqMax(Tail(q)))

\* a mutant: the length of the first row instead of the longest
RowMaxLen_First(vals) == Len(vals[1])

\* max_len = max(len(r) for r in values)
RowMaxLen(vals) == SeqMax([r \in 1..Len(vals) |-> Len(vals[r])])

\* r + [""] * (max_len - len(r))   ([""] * n is [] for n <= 0)
PadRow(r, max_len) == r \o [k \in 1..Max(0, max_len - Len(r)) |-> <<>>]

\* a mutant: distinct labels suffice, the any() test is dropped
HasHeaders_NoAny(headers) ==
    Cardinality({headers[j] : j \in 1..Len(headers)}) = Len(headers)

\* any(h != "" for h in headers) and len(set(headers)) == len(headers)
HasHeaders(headers) ==
    /\ \E j \in 1..Len(headers) : headers[j] # <<>>
    /\ Cardinality({headers[j] : j \in 1..Len(headers)}) = Len(headers)

\* a mutant: without the `if not values` guard, [] is read as one row
\* without cells
values_to_dataframe_NoGuard(vals) ==
    LET vs == IF vals = <<>> THEN << <<>> >> ELSE vals
        max_len == RowMaxLen(vs)
        rows == [r \in 1..Len(vs) |-> PadRow(vs[r], max_len)]
        headers == rows[1]
    IN IF HasHeaders(headers)
       THEN [columns |-> StrRow(headers),
             data |-> [r \in 1..(Len(rows) - 1) |-> StrRow(rows[r + 1])]]
       ELSE [columns |-> [j \in 1..max_len |-> IntLabel(j - 1)],
             data |-> [r \in 1..Len(rows) |-> StrRow(rows[r])]]

values_to_dataframe(vals) ==
    IF vals = <<>> THEN EmptyDataFrame
    ELSE LET max_len == RowMaxLen(vals)
             rows == [r \in 1..Len(vals) |-> PadRow(vals[r], max_len)]
             headers == rows[1]
         IN IF HasHeaders(headers)
            THEN \* pd.DataFrame(rows[1:], columns=headers)
                 [columns |-> StrRow(headers),
                  data |-> [r \in 1..(Len(rows) - 1) |-> StrRow(rows[r + 1])]]
            ELSE \* pd.DataFrame(rows): positional labels 0..max_len-1
                 [columns |-> [j \in 1..max_len |-> IntLabel(j - 1)],
                  data |-> [r \in 1..Len(rows) |-> StrRow(rows[r])]]

\* the raw inputs explored: the cells of the first row and of the others
FirstRowCells == {<<>>, <<"A">>, <<"B">>}
OtherRowCells == {<<>>, <<"1">>}
RowsOver(cells) == UNION {[1..n -> cells] : n \in 0..MaxCols}
FirstRows == RowsOver(FirstRowCells)
OtherRows == RowsOver(OtherRowCells)

\* values is [] or a first row followed by up to MaxRows - 1 rows
NormStart ==
    /\ \/ values = <<>>
       \/ \E n \in 0..(MaxRows - 1) :
             \E h \in FirstRows, rest \in [1..n -> OtherRows] : values = <<h>> \o rest
    /\ df = EmptyDataFrame
    /\ npc = "start"
NormIdle == values = <<>> /\ df = EmptyDataFrame /\ npc = "idle"

\* the call values_to_dataframe(values)
ValuesToDataframe ==
    /\ component = "normalizer"
    /\ npc = "start"
    /\ df' = values_to_dataframe(values)
    /\ npc' = "done"
    /\ UNCHANGED <<component, values, retryVars, connVars, ingestVars, dateVars, procVars, tierVars, settingsVars>>

NextNorm == ValuesToDataframe


(* ====================================================================== *)
(* src/utils/google_sheets.py : GoogleSheetsConnector                      *)
(* ====================================================================== *)
\* self.cache_ttl = 300  # 5 minutes cache
cache_ttl == 300
\* self.min_request_interval = 1.0  # 1 second between requests
min_request_interval == 1

(* ----------------------------- strings -------------------------------- *)
Digits == <<"0", "1", "2", "3", "4", "5", "6", "7", "8", "9">>
IsDigit(c) == \E d \in 1..10 : Digits[d] = c
DigitVal(c) == (CHOOSE d \in 1..10 : Digits[d] = c) - 1
IsSpace(c) == c \in {" ", "\t", "\n"}

RECURSIVE RemoveChars(_, _)
\* re.sub('[...]', '', s): every character of the class is removed
RemoveChars(str, class) ==
    IF str = <<>> THEN <<>>
    ELSE IF Head(str) \in class THEN RemoveChars(Tail(str), class)
         ELSE <<Head(str)>> \o RemoveChars(Tail(str), class)

RECURSIVE LStrip(_)
LStrip(str) == IF str # <<>> /\ IsSpace(Head(str)) THEN LStrip(Tail(str)) ELSE str
RECURSIVE RStrip(_)
RStrip(str) ==
    IF str # <<>> /\ IsSpace(str[Len(str)])
    THEN RStrip(SubSeq(str, 1, Len(str) - 1)) ELSE str
\* str.strip()
Strip(str) == RStrip(LStrip(str))

\* str.startswith(prefix)
StartsWith(str, prefix) ==
    Len(str) >= Len(prefix) /\ SubSeq(str, 1, Len(prefix)) = prefix

RECURSIVE DigitsValue(_)
\* the integer written by a string of digits
DigitsValue(str) ==
    IF str = <<>> THEN 0
    ELSE 10 * DigitsValue(SubSeq(str, 1, Len(str) - 1)) + DigitVal(str[Len(str)])

AllDigits(str) == \A k \in 1..Len(str) : IsDigit(str[k])

RECURSIVE NormNum(_, _)
\* m / 10^e without trailing zeros in the fraction (1.50 is 1.5)
NormNum(mant, exp) ==
    IF exp > 0 /\ mant % 10 = 0 THEN NormNum(mant \div 10, exp - 1) ELSE Num(mant, exp)

\* pd.to_numeric(..., errors='coerce') of one string: an optional sign,
\* digits with at most one decimal point and at least one digit give the
\* number; the other strings over the characters explored here (letters,
\* '%', '$', ',') give NaN
ToNumeric(str) ==
    LET signed == str # <<>> /\ Head(str) \in {"+", "-"}
        body == IF signed THEN Tail(str) ELSE str
        dots == {k \in 1..Len(body) : body[k] = "."}
        dot == IF dots = {} THEN Len(body) + 1 ELSE CHOOSE k \in dots : TRUE
        whole == SubSeq(body, 1, dot - 1)
        frac == SubSeq(body, dot + 1, Len(body))
        ok == /\ Cardinality(dots) <= 1
              /\ AllDigits(whole) /\ AllDigits(frac)
              /\ Len(whole) + Len(frac) >= 1
        mag == DigitsValue(whole \o frac)
    IN IF ~ok THEN NA
       ELSE NormNum(IF signed /\ Head(str) = "-" THEN 0 - mag ELSE mag, Len(frac))

(* ---------------------------- DataFrames ------------------------------ *)
Column(d, j) == [r \in 1..Len(d.data) |-> d.data[r][j]]
\* df[col] = series, for the j-th column
SetColumn(d, j, series) ==
    [d EXCEPT !.data = [r \in 1..Len(d.data) |-> [d.data[r] EXCEPT ![j] = series[r]]]]
\* df.loc[:, keep] / df.loc[keep]: the columns / rows that are kept, in order
RECURSIVE KeepIdx(_, _)
KeepIdx(q, keep) ==
    IF q = <<>> THEN <<>>
    ELSE (IF keep[1] THEN <<Head(q)>> ELSE <<>>)
         \o KeepIdx(Tail(q), [k \in 1..(Len(q) - 1) |-> keep[k + 1]])
KeepColumns(d, keep) ==
    [columns |-> KeepIdx(d.columns, keep),
     data |-> [r \in 1..Len(d.data) |-> KeepIdx(d.data[r], keep)]]

\* pd.DataFrame(rows, columns=headers), headers = data_values[0],
\* rows = data_values[1:]   (gspread returns a rectangular matrix)
DataFrameOf(data_values) ==
    [columns |-> StrRow(data_values[1]),
     data |-> [r \in 1..(Len(data_values) - 1) |-> StrRow(data_values[r + 1])]]

\* df.dropna(how='all'): the rows whose cells are all missing are removed
DropNaAll(d) ==
    [d EXCEPT !.data =
        KeepIdx(d.data, [r \in 1..Len(d.data) |->
                            \E j \in 1..Len(d.data[r]) : d.data[r][j].t # "na"])]

Unnamed == <<"U", "n", "n", "a", "m", "e", "d">>
\* df.loc[:, ~df.columns.str.contains('^Unnamed', na=False)]
DropUnnamed(d) ==
    KeepColumns(d, [j \in 1..Len(d.columns) |-> ~StartsWith(d.columns[j].s, Unnamed)])

\* series.astype(str) of one cell (cells are strings or missing here)
AsTypeStr(c) == IF c.t = "na" THEN <<"n", "a", "n">> ELSE c.s

\* the three steps of the conversion of one cell: strip '%', '$', ',';
\* 'nan', '' and 'None' become pd.NA; pd.to_numeric(errors='coerce')
CleanNumericCell(c) ==
    LET cleaned == RemoveChars(AsTypeStr(c), {"%", "$", ","})
    IN IF cleaned \in {<<"n", "a", "n">>, <<>>, <<"N", "o", "n", "e">>}
       THEN NA ELSE ToNumeric(cleaned)

\* one iteration of `for col in df.columns` for the j-th label
CleanColumn(d, j) ==
    LET col == d.columns[j]
        series == Column(d, j)
        numeric_col == [r \in 1..Len(series) |-> CleanNumericCell(series[r])]
        null_count == Cardinality({r \in 1..Len(series) : numeric_col[r].t = "na"})
    IN IF col.s = <<>> \/ Strip(col.s) = <<>> THEN d      \* empty column name
       ELSE IF \E k \in 1..Len(d.columns) : k # j /\ d.columns[k] = col
            THEN d      \* df[col] is a DataFrame: the ValueError is caught
       ELSE IF Len(series) = 0 THEN d
       ELSE IF \A r \in 1..Len(series) : series[r].t = "na" THEN d
       ELSE IF null_count < Len(series) THEN SetColumn(d, j, numeric_col)
       ELSE d

RECURSIVE CleanColumns(_, _)
CleanColumns(d, j) ==
    IF j > Len(d.columns) THEN d ELSE CleanColumns(CleanColumn(d, j), j + 1)

\* GoogleSheetsConnector._clean_dataframe
_clean_dataframe(d) ==
    IF DfEmpty(d) THEN d ELSE CleanColumns(DropUnnamed(DropNaAll(d)), 1)

(* --------------------------- the connector ---------------------------- *)
\* the tabs get_all_sheets loads
Sheets == <<"Dataset", "Patient Count", "Utilization", "August">>
SheetNames == {Sheets[k] : k \in 1..Len(Sheets)}

spreadsheet_id == "17SFltoaYiEVVHDN7flctrHn1TKj01xCCyrsoiCN7L8c"
\* the key is the md5 of f"{sheet_name}_{range_name}_{self.spreadsheet_id}",
\* range_name = None; the digest is modelled by the text it is taken of
_get_cache_key(sheet_name) == <<sheet_name, "None", spreadsheet_id>>

sProvider == <<"P", "r", "o", "v", "i", "d", "e", "r">>
sPatientCount == <<"P", "a", "t", "i", "e", "n", "t", " ", "C", "o", "u", "n", "t">>
sScribe == <<"S", "c", "r", "i", "b", "e", " ", "N", "a", "m", "e">>

\* what worksheet.get_all_values() can give: an empty tab or a header row
\* with data rows
SheetTable ==
    << <<sProvider, sPatientCount>>, <<<<"A">>, <<"9", "5", "%">>>>,
                                     <<<<"B">>, <<>>>> >>
RemoteValues == {<<>>, SheetTable}
\* the remote request: the values, or the exception of
\* spreadsheet.worksheet() (unknown tab) or of get_all_values() (API error)
RemoteFailures == {"WorksheetNotFound", "APIError"}
RemoteOutcomes ==
    {[kind |-> "values", values |-> v] : v \in RemoteValues}
    \cup {[kind |-> k, values |-> <<>>] : k \in RemoteFailures}

\* _generate_sample_data(sheet_name): tables of np.random numbers for the
\* names it knows ('August' is not one: its months are 'Jan'..'Aug'), an
\* empty DataFrame otherwise.  One row with one random number stands for
\* the generated rows.
SampleNumbers == {Num(60, 0), Num(95, 0)}
_generate_sample_data(sheet_name, rnd) ==
    CASE sheet_name = "Dataset" ->
            [columns |-> <<Str(sScribe), Str(sPatientCount)>>,
             data |-> << <<Str(<<"A">>), rnd>> >>]
      [] sheet_name \in {"Patient Count", "Utilization",
                         "Jan", "Feb", "Mar", "Apr", "May", "Jun", "Jul", "Aug"} ->
            [columns |-> <<Str(sProvider), Str(sPatientCount)>>,
             data |-> << <<Str(<<"A">>), rnd>> >>]
      [] OTHER -> EmptyDataFrame

NoEntry == [data |-> EmptyDataFrame, timestamp |-> -1]
\* self.cache.get(key), NoEntry when the key is absent
Entry(c, key) == IF key \in DOMAIN c THEN c[key] ELSE NoEntry
EmptyCache == [k \in {} |-> NoEntry]

\* a mutant: an entry exactly cache_ttl old is still served
_is_cache_valid_Le(c, cache_key, now) ==
    IF cache_key \notin DOMAIN c THEN FALSE
    ELSE (now - c[cache_key].timestamp) <= cache_ttl

\* _is_cache_valid, with time.time() = now
_is_cache_valid(c, cache_key, now) ==
    IF cache_key \notin DOMAIN c THEN FALSE
    ELSE (now - c[cache_key].timestamp) < cache_ttl

\* a mutant: no sleep, the request is made at once
_rate_limit_NoSleep(now, last) == now

\* _rate_limit: the time after the sleep, which becomes last_request_time
_rate_limit(now, last) ==
    IF now - last < min_request_interval
    THEN now + (min_request_interval - (now - last)) ELSE now

\* a mutant: the cache is written whatever use_cache says
CacheWrite_Always(c, use_cache, cache_key, data, now) ==
    (cache_key :> [data |-> data, timestamp |-> now]) @@ c

\* `if use_cache: self.cache[cache_key] = {'data': data.copy(), 'timestamp': time.time()}`
CacheWrite(c, use_cache, cache_key, data, now) ==
    IF use_cache THEN (cache_key :> [data |-> data, timestamp |-> now]) @@ c ELSE c

\* `except Exception as e: logger.error(...); return pd.DataFrame()`
FetchFailed(kind) == [kind |-> "returned", data |-> EmptyDataFrame, err |-> "None"]

\* the end of the try block once data is there: the cache is written
\* (if use_cache) and data is returned
Fetched(st, call, data, source, requested, now) ==
    [st |-> [cache |-> CacheWrite(st.cache, call.use_cache, call.key, data, now),
             clock |-> now,
             last_request_time |-> IF requested >= 0 THEN requested
                                   ELSE st.last_request_time],
     call |-> [call EXCEPT !.source = source, !.request_at = requested,
                           !.result = [kind |-> "returned", data |-> data, err |-> "None"]]]

\* `df = pd.DataFrame(values[1:], columns=values[0])` and
\* `self._clean_dataframe(df)`, tabulated over the values the remote gives
CleanedRemote ==
    [v \in RemoteValues \ {<<>>} |-> _clean_dataframe(DataFrameOf(v))]

\* get_sheet_data(sheet_name, use_cache) on the connector state
\* st = [cache, clock, last_request_time]; remote is what the remote request
\* does if it is made, rnd the random number of the sample generator, dur
\* the seconds the request takes.  The result is the new state and the
\* record of the call: what was returned and by which path.
get_sheet_data(st, sheet_name, use_cache, remote, rnd, dur) ==
    LET cache_key == _get_cache_key(sheet_name)
        found == Entry(st.cache, cache_key)
        call == [sheet |-> sheet_name, key |-> cache_key, use_cache |-> use_cache,
                 at |-> st.clock, found |-> found, request_at |-> -1,
                 source |-> "cache", failure |-> "None",
                 result |-> [kind |-> "returned", data |-> found.data, err |-> "None"]]
        t1 == _rate_limit(st.clock, st.last_request_time)
    IN IF use_cache /\ _is_cache_valid(st.cache, cache_key, st.clock)
       THEN [st |-> st, call |-> call]
       ELSE IF connected
       THEN IF remote.kind \in RemoteFailures
            THEN [st |-> [st EXCEPT !.clock = t1 + dur, !.last_request_time = t1],
                  call |-> [call EXCEPT !.source = "remote", !.request_at = t1,
                                        !.failure = remote.kind,
                                        !.result = FetchFailed(remote.kind)]]
            ELSE Fetched(st, call,
                         IF remote.values # <<>>
                         THEN CleanedRemote[remote.values]
                         ELSE EmptyDataFrame,
                         "remote", t1, t1 + dur)
       ELSE Fetched(st, call, _generate_sample_data(sheet_name, rnd),
                    "sample", -1, st.clock)

ConnState == [cache |-> cache, clock |-> clock, last_request_time |-> last_request_time]

\* __init__: an empty cache, last_request_time = 0; _initialize_connection
\* leaves the connector connected or not (no credentials, or an exception)
ConnStart ==
    /\ connected \in BOOLEAN
    /\ cache = EmptyCache
    /\ last_request_time = 0
    /\ clock = StartTime
    /\ ret = [op |-> "__init__"]
    /\ log = <<>>
    /\ nsteps = 0

ConnIdle ==
    /\ connected = FALSE /\ cache = EmptyCache /\ last_request_time = 0
    /\ clock = 0 /\ ret = [op |-> "none"] /\ log = <<>> /\ nsteps = 0

\* a call connector.get_sheet_data(sheet_name, use_cache)
GetSheetData(sheet_name, use_cache, remote, rnd, dur) ==
    /\ component = "connector"
    /\ nsteps < MaxSteps
    /\ \E r \in {get_sheet_data(ConnState, sheet_name, use_cache, remote, rnd, dur)} :
          /\ cache' = r.st.cache
          /\ clock' = r.st.clock
          /\ last_request_time' = r.st.last_request_time
          /\ ret' = [op |-> "get_sheet_data", result |-> r.call.result]
          /\ log' = <<r.call>>
    /\ nsteps' = nsteps + 1
    /\ UNCHANGED <<component, connected, retryVars, normVars, ingestVars, dateVars, procVars, tierVars, settingsVars>>

\* one iteration of the loop of get_all_sheets, r being what
\* get_sheet_data did
LoadStep(acc, r) == [st |-> r.st, calls |-> Append(acc.calls, r.call)]

RECURSIVE LoadSheets(_, _, _, _, _)
\* the loop of get_all_sheets from the k-th tab on: the state and the
\* calls made, in order
LoadSheets(acc, k, remotes, rnd, dur) ==
    IF k > Len(Sheets) THEN acc
    ELSE LoadSheets(LoadStep(acc, get_sheet_data(acc.st, Sheets[k], TRUE,
                                                 remotes[Sheets[k]], rnd, dur)),
                    k + 1, remotes, rnd, dur)

\* all_data[sheet_name] is the table get_sheet_data returned, or an empty
\* DataFrame if it raised (`except Exception`)
AllData(sheet_calls) ==
    [sh \in SheetNames |->
        LET c == sheet_calls[CHOOSE k \in 1..Len(Sheets) : Sheets[k] = sh]
        IN IF c.result.kind = "raised" THEN EmptyDataFrame ELSE c.result.data]

\* a call connector.get_all_sheets()
GetAllSheets(remotes, rnd, dur) ==
    /\ component = "connector"
    /\ nsteps < MaxSteps
    /\ \E r \in {LoadSheets([st |-> ConnState, calls |-> <<>>], 1, remotes, rnd, dur)} :
          /\ cache' = r.st.cache
          /\ clock' = r.st.clock
          /\ last_request_time' = r.st.last_request_time
          /\ ret' = [op |-> "get_all_sheets",
                     result |-> [kind |-> "returned", data |-> AllData(r.calls),
                                 err |-> "None"]]
          /\ log' = r.calls
    /\ nsteps' = nsteps + 1
    /\ UNCHANGED <<component, connected, retryVars, normVars, ingestVars, dateVars, procVars, tierVars, settingsVars>>

\* a call connector.refresh_cache(): self.cache.clear()
RefreshCache ==
    /\ component = "connector"
    /\ nsteps < MaxSteps
    /\ cache' = EmptyCache
    /\ ret' = [op |-> "refresh_cache"]
    /\ log' = <<>>
    /\ nsteps' = nsteps + 1
    /\ UNCHANGED <<component, connected, last_request_time, clock, retryVars, normVars, ingestVars, dateVars, procVars, tierVars, settingsVars>>

\* time passes between two calls: just less than the time to live of a
\* cache entry, or just that time; the behaviour is followed until
\* MaxElapsed seconds have passed
ClockSteps == {cache_ttl - 1, cache_ttl}
MaxElapsed == cache_ttl + MaxSteps
Tick(d) ==
    /\ component = "connector"
    /\ clock + d <= StartTime + MaxElapsed
    /\ clock' = clock + d
    /\ ret' = [op |-> "tick"]
    /\ log' = <<>>
    /\ UNCHANGED <<component, connected, cache, last_request_time, nsteps,
                   retryVars, normVars, ingestVars, dateVars, procVars, tierVars, settingsVars>>

Durations == {0, 1}
\* what the environment of one call decides: the remote request and its
\* duration for a connected connector, the random numbers otherwise
Envs(outcomes) ==
    IF connected
    THEN {[remote |-> o, rnd |-> Num(0, 0), dur |-> d] : o \in outcomes, d \in Durations}
    ELSE {[remote |-> <<>>, rnd |-> n, dur |-> 0] : n \in SampleNumbers}
\* in one get_all_sheets a tab is either there or not
TabOutcomes == {[kind |-> "values", values |-> SheetTable],
                [kind |-> "WorksheetNotFound", values |-> <<>>]}

\* the tabs read by single get_sheet_data calls
SingleSheets == {"Dataset", "August"}

NextConn ==
    \/ \E sh \in SingleSheets, uc \in BOOLEAN, env \in Envs(RemoteOutcomes) :
            GetSheetData(sh, uc, env.remote, env.rnd, env.dur)
    \/ \E env \in Envs([SheetNames -> TabOutcomes]) :
            GetAllSheets(env.remote, env.rnd, env.dur)
    \/ RefreshCache
    \/ \E d \in ClockSteps : Tick(d)

(* ====================================================================== *)
(* scribedash/ingest.py                                                    *)
(* ====================================================================== *)
UpperCase == <<"A", "B", "C", "D", "E", "F", "G", "H", "I", "J", "K", "L", "M",
               "N", "O", "P", "Q", "R", "S", "T", "U", "V", "W", "X", "Y", "Z">>
LowerCase == <<"a", "b", "c", "d", "e", "f", "g", "h", "i", "j", "k", "l", "m",
               "n", "o", "p", "q", "r", "s", "t", "u", "v", "w", "x", "y", "z">>
IsUpper(c) == \E k \in 1..Len(UpperCase) : UpperCase[k] = c
LowerChar(c) ==
    IF IsUpper(c) THEN LowerCase[CHOOSE k \in 1..Len(UpperCase) : UpperCase[k] = c]
    ELSE c
\* str.lower()
Lower(str) == [k \in 1..Len(str) |-> LowerChar(str[k])]
\* str.replace(" ", "_")
ReplaceSpaces(str) == [k \in 1..Len(str) |-> IF str[k] = " " THEN "_" ELSE str[k]]

RECURSIVE IntToStr(_)
\* str(n) of a non-negative integer
IntToStr(n) ==
    IF n < 10 THEN <<Digits[n + 1]>> ELSE IntToStr(n \div 10) \o <<Digits[(n % 10) + 1]>>

\* str(c) of a column label: the text of a string, the digits of a
\* positional label
LabelStr(c) == IF c.t = "int" THEN IntToStr(c.m) ELSE c.s

\* a mutant: the spaces are replaced before the label is stripped
Canonical_ReplaceFirst(c) == Str(Strip(ReplaceSpaces(Lower(LabelStr(c)))))

\* str(c).strip().lower().replace(" ", "_")
Canonical(c) == Str(ReplaceSpaces(Lower(Strip(LabelStr(c)))))

\* df.columns = [str(c).strip().lower().replace(" ", "_") for c in df.columns]
CanonicalColumns(d) ==
    [d EXCEPT !.columns = [j \in 1..Len(d.columns) |-> Canonical(d.columns[j])]]

\* `sub in str`
Contains(str, sub) ==
    \E k \in 0..(Len(str) - Len(sub)) : SubSeq(str, k + 1, k + Len(sub)) = sub

\* int(x) of a string: surrounding whitespace is ignored, then an optional
\* sign and at least one digit; anything else (the empty string, a decimal
\* point, '%', '$', ',', letters) raises ValueError
IntOf(str) ==
    LET t == Strip(str)
        signed == t # <<>> /\ Head(t) \in {"+", "-"}
        body == IF signed THEN Tail(t) ELSE t
    IN IF body = <<>> \/ ~AllDigits(body) THEN NA
       ELSE Num(IF signed /\ Head(t) = "-" THEN 0 - DigitsValue(body)
                ELSE DigitsValue(body), 0)

\* a mutant: a string that does not parse gives 0
_parse_int_safe_Zero(c) == IF IntOf(c.s) = NA THEN Num(0, 0) ELSE IntOf(c.s)

\* _parse_int_safe(x): int(x), None on any exception
_parse_int_safe(c) == IntOf(c.s)

\* _parse_float_safe(x): float(x), None on any exception; float() ignores
\* surrounding whitespace and reads a sign and digits around at most one
\* decimal point
_parse_float_safe(c) == ToNumeric(Strip(c.s))

(* -------------------------- _parse_date_safe -------------------------- *)
\* a datetime at midnight
Date(y, mo, d) == [t |-> "date", s |-> <<>>, m |-> (y * 10000) + (mo * 100) + d, e |-> 0]

RECURSIVE Fields(_, _)
\* str.split(sep)
Fields(str, sep) ==
    LET seps == {k \in 1..Len(str) : str[k] = sep}
    IN IF seps = {} THEN <<str>>
       ELSE LET k == CHOOSE n \in seps : \A o \in seps : n <= o
            IN <<SubSeq(str, 1, k - 1)>> \o Fields(SubSeq(str, k + 1, Len(str)), sep)

IsLeap(y) == (y % 4 = 0 /\ y % 100 # 0) \/ y % 400 = 0
DaysInMonth(y, mo) ==
    IF mo = 2 THEN (IF IsLeap(y) THEN 29 ELSE 28)
    ELSE IF mo \in {4, 6, 9, 11} THEN 30 ELSE 31

\* the directives of strptime as _strptime.py matches them:
\*   %d  3[0-1]|[1-2]\d|0[1-9]|[1-9]| [1-9]      %m  1[0-2]|0[1-9]|[1-9]
\*   %y  \d\d (00..68 is 2000..2068, 69..99 is 1969..1999)    %Y  \d\d\d\d
\* NoField when the text is not matched
NoField == -1
DayField(f) ==
    IF Len(f) \in {1, 2} /\ AllDigits(f) /\ DigitsValue(f) \in 1..31 THEN DigitsValue(f)
    ELSE IF Len(f) = 2 /\ f[1] = " " /\ IsDigit(f[2]) /\ f[2] # "0" THEN DigitVal(f[2])
    ELSE NoField
MonthField(f) ==
    IF Len(f) \in {1, 2} /\ AllDigits(f) /\ DigitsValue(f) \in 1..12 THEN DigitsValue(f)
    ELSE NoField
Year2Field(f) ==
    IF Len(f) = 2 /\ AllDigits(f)
    THEN (IF DigitsValue(f) <= 68 THEN 2000 + DigitsValue(f) ELSE 1900 + DigitsValue(f))
    ELSE NoField
Year4Field(f) == IF Len(f) = 4 /\ AllDigits(f) THEN DigitsValue(f) ELSE NoField

\* datetime(y, mo, d): ValueError (NA here) unless 1 <= y and the day exists
MakeDate(y, mo, d) ==
    IF y = NoField \/ mo = NoField \/ d = NoField THEN NA
    ELSE IF y < 1 \/ d > DaysInMonth(y, mo) THEN NA
    ELSE Date(y, mo, d)

\* the formats of _parse_date_safe, in the order of the tuple
DateFormats == <<"%d/%m/%y", "%Y-%m-%d", "%m/%d/%Y">>

\* datetime.strptime(str, fmt), NA when it raises ValueError
Strptime(str, fmt) ==
    LET sep == IF fmt = "%Y-%m-%d" THEN "-" ELSE "/"
        f == Fields(str, sep)
    IN IF Len(f) # 3 THEN NA
       ELSE CASE fmt = "%d/%m/%y" -> MakeDate(Year2Field(f[3]), MonthField(f[2]), DayField(f[1]))
              [] fmt = "%Y-%m-%d" -> MakeDate(Year4Field(f[1]), MonthField(f[2]), DayField(f[3]))
              [] fmt = "%m/%d/%Y" -> MakeDate(Year4Field(f[3]), MonthField(f[1]), DayField(f[2]))

RECURSIVE TryFormats(_, _)
\* `for fmt in (...): try: return datetime.strptime(str(x), fmt) except Exception: continue`
\* from the k-th format on, then `return None`
TryFormats(str, k) ==
    IF k > Len(DateFormats) THEN NA
    ELSE IF Strptime(str, DateFormats[k]) # NA THEN Strptime(str, DateFormats[k])
    ELSE TryFormats(str, k + 1)

\* a mutant: only the first format is tried
_parse_date_safe_FirstOnly(c) == Strptime(c.s, DateFormats[1])

_parse_date_safe(c) == TryFormats(c.s, 1)

(* ------------------------------ loaders ------------------------------- *)
\* `col in df.columns`
HasColumn(d, text) == \E j \in 1..Len(d.columns) : d.columns[j] = Str(text)
ColumnIndex(d, text) == CHOOSE j \in 1..Len(d.columns) : d.columns[j] = Str(text)

\* the function a loader applies to the cells of a column
ParseCell(kind, c) ==
    CASE kind = "int" -> _parse_int_safe(c)
      [] kind = "float" -> _parse_float_safe(c)
      [] kind = "date" -> _parse_date_safe(c)
      [] kind = "to_numeric" -> ToNumeric(c.s)

\* df[col].apply(f) / pd.to_numeric(df[col], errors="coerce")
ParsedColumn(d, j, kind) ==
    [r \in 1..Len(d.data) |-> ParseCell(kind, d.data[r][j])]

RECURSIVE CoerceColumns(_, _, _)
\* `for col in cols: if col in df.columns: df[col] = df[col].apply(f)`
CoerceColumns(d, cols, kind) ==
    IF cols = <<>> THEN d
    ELSE CoerceColumns(
            IF HasColumn(d, Head(cols))
            THEN SetColumn(d, ColumnIndex(d, Head(cols)),
                           ParsedColumn(d, ColumnIndex(d, Head(cols)), kind))
            ELSE d,
            Tail(cols), kind)

\* df[label] = series for a label that is not a column yet: a new last column
AppendColumn(d, text, series) ==
    [columns |-> Append(d.columns, Str(text)),
     data |-> [r \in 1..Len(d.data) |-> Append(d.data[r], series[r])]]

\* the columns load_patient_count coerces with _parse_int_safe
MonthColumns ==
    <<<<"j", "a", "n">>,
      <<"f", "e", "b">>,
      <<"m", "a", "r">>,
      <<"a", "p", "r">>,
      <<"m", "a", "y">>,
      <<"j", "u", "n">>,
      <<"j", "u", "l", "y">>,
      <<"a", "u", "g", "u", "s", "t">>,
      <<"a", "v", "g">>>>
\* the keywords of load_utilization
UtilizationKeys ==
    {<<"j", "a", "n", "u", "a", "r", "y">>,
     <<"f", "e", "b", "r", "u", "a", "r", "y">>,
     <<"m", "a", "r", "c", "h">>,
     <<"a", "p", "r", "i", "l">>,
     <<"m", "a", "y">>,
     <<"j", "u", "n", "e">>,
     <<"j", "u", "l", "y">>,
     <<"a", "u", "g", "u", "s", "t">>,
     <<"a", "v", "e", "r", "a", "g", "e">>}
IsUtilizationMetric(c) == \E k \in UtilizationKeys : Contains(c.s, k)
IntColumns == <<<<"s", "c", "h", "e", "d", "u", "l", "e", "d">>, <<"u", "p", "l", "o", "a", "d", "e", "d">>>>
FloatColumns == <<<<"s", "c", "r", "i", "b", "e", "_", "h", "o", "u", "r", "s">>,
                  <<"p", "r", "o", "v", "i", "d", "e", "r", "_", "h", "o", "u", "r", "s">>,
                  <<"h", "o", "u", "r", "s", "_", "d", "i", "f", "f", "e", "r", "e", "n", "c", "e">>>>
sDate == <<"d", "a", "t", "e">>
sDateParsed == <<"d", "a", "t", "e", "_", "p", "a", "r", "s", "e", "d">>

load_patient_count(vals) ==
    CoerceColumns(CanonicalColumns(values_to_dataframe(vals)), MonthColumns, "int")

RECURSIVE ToNumericColumns(_, _)
\* `for c in df.columns: if any(k in c for k in [...]): df[c] = pd.to_numeric(df[c], errors="coerce")`
ToNumericColumns(d, j) ==
    IF j > Len(d.columns) THEN d
    ELSE ToNumericColumns(IF IsUtilizationMetric(d.columns[j])
                          THEN SetColumn(d, j, ParsedColumn(d, j, "to_numeric"))
                          ELSE d,
                          j + 1)

load_utilization(vals) ==
    ToNumericColumns(CanonicalColumns(values_to_dataframe(vals)), 1)

load_dataset(vals) == CanonicalColumns(values_to_dataframe(vals))

load_month_activity(vals) ==
    LET d0 == CanonicalColumns(values_to_dataframe(vals))
        d1 == CoerceColumns(d0, IntColumns, "int")
        d2 == IF HasColumn(d1, sDate)
              THEN AppendColumn(d1, sDateParsed,
                                ParsedColumn(d1, ColumnIndex(d1, sDate), "date"))
              ELSE d1
    IN CoerceColumns(d2, FloatColumns, "float")

Loaders == {"load_patient_count", "load_utilization", "load_dataset", "load_month_activity"}
LoaderDf(name, vals) ==
    CASE name = "load_patient_count" -> load_patient_count(vals)
      [] name = "load_utilization" -> load_utilization(vals)
      [] name = "load_dataset" -> load_dataset(vals)
      [] name = "load_month_activity" -> load_month_activity(vals)
\* the name of the SheetResult; load_month_activity is called for "August"
LoaderTab(name) ==
    CASE name = "load_patient_count" -> "Patient Count"
      [] name = "load_utilization" -> "Utilization"
      [] name = "load_dataset" -> "Dataset"
      [] name = "load_month_activity" -> "August"

(* ------------------------ the calls explored -------------------------- *)
\* the texts of the cells: of a name column, of a column of numbers and of
\* a column of dates
NameTexts == {<<"A", "n", "n">>}
NumberTexts ==
    {<<"9", "5">>,
     <<>>,
     <<"1", ",", "2", "3", "4">>,
     <<"$", "5", "0">>,
     <<"9", "5", "%">>,
     <<"9", ".", "5">>,
     <<"n", "/", "a">>}
DateTexts ==
    {<<"2", "5", "/", "1", "2", "/", "2", "3">>,
     <<"2", "0", "2", "3", "-", "1", "2", "-", "2", "5">>,
     <<"1", "2", "/", "2", "5", "/", "2", "0", "2", "3">>,
     <<"s", "o", "o", "n">>,
     <<>>}
sName == <<"n", "a", "m", "e">>
\* the cells explored under a header cell
CellsFor(h) ==
    IF Canonical(Str(h)).s = sName THEN NameTexts
    ELSE IF Canonical(Str(h)).s = sDate THEN DateTexts
    ELSE NumberTexts

\* the first rows explored: labels with upper case, surrounding and inner
\* spaces; a duplicated label and a blank row (tables without header)
HeaderRows ==
    {<<<<"N", "a", "m", "e">>, <<"M", "a", "y">>>>,
     <<<<" ", "A", "v", "g", " ">>, <<"N", "a", "m", "e">>>>,
     <<<<"S", "c", "r", "i", "b", "e", " ", "H", "o", "u", "r", "s">>, <<"N", "a", "m", "e">>>>,
     <<<<"N", "a", "m", "e">>, <<"D", "a", "t", "e">>>>,
     <<<<"S", "c", "h", "e", "d", "u", "l", "e", "d">>>>,
     <<<<"M", "a", "y", " ", "T", "o", "t", "a", "l">>>>,
     <<<<"N", "a", "m", "e">>, <<"N", "a", "m", "e">>>>,
     <<<<>>>>}

\* the rows under the first row h
RowsUnder ==
    [h \in HeaderRows |->
        {r \in [1..Len(h) -> NameTexts \cup NumberTexts \cup DateTexts] :
            \A j \in 1..Len(h) : r[j] \in CellsFor(h[j])}]

\* fetch_values raises when _with_retries does
FetchError == FnError("transient", DefaultAttempts)

\* the table get_sheet_data builds from worksheet.get_all_values():
\* `if data_values: ... data = self._clean_dataframe(pd.DataFrame(rows, columns=headers))`
\* `else: data = pd.DataFrame()`
CleanedValues(data_values) ==
    IF data_values # <<>> THEN _clean_dataframe(DataFrameOf(data_values))
    ELSE EmptyDataFrame
Cleaners == {"_clean_dataframe"}

\* a loader is called; fetch_values raises, or returns [] or a first row
\* with up to MaxLoadRows rows under it.  The same raw values are handed
\* to the table construction of the connector.
IngestStart ==
    /\ \/ fetched = Raised(FetchError)
       \/ fetched = Returned(<<>>)
       \/ \E h \in HeaderRows, n \in 0..MaxLoadRows :
             \E rows \in [1..n -> RowsUnder[h]] : fetched = Returned(<<h>> \o rows)
    /\ loader \in IF fetched.kind = "raised" THEN Loaders ELSE Loaders \cup Cleaners
    /\ sheet = NoOutcome
    /\ lpc = "start"
IngestIdle ==
    /\ loader = "none" /\ fetched = NoOutcome /\ sheet = NoOutcome /\ lpc = "idle"

\* the call loader(service, spreadsheet_id): the exception of fetch_values
\* propagates, else SheetResult(name, df)
Load ==
    /\ component = "ingest"
    /\ lpc = "start"
    /\ loader \in Loaders
    /\ sheet' = IF fetched.kind = "raised" THEN fetched
                ELSE Returned([name |-> LoaderTab(loader),
                               df |-> LoaderDf(loader, fetched.value)])
    /\ lpc' = "done"
    /\ UNCHANGED <<component, loader, fetched, retryVars, normVars, connVars,
                   dateVars, procVars, tierVars, settingsVars>>

\* the table of get_sheet_data for the values fetched
Clean ==
    /\ component = "ingest"
    /\ lpc = "start"
    /\ loader \in Cleaners
    /\ sheet' = Returned([name |-> "Dataset", df |-> CleanedValues(fetched.value)])
    /\ lpc' = "done"
    /\ UNCHANGED <<component, loader, fetched, retryVars, normVars, connVars,
                   dateVars, procVars, tierVars, settingsVars>>

NextIngest == Load \/ Clean

\* the texts _parse_date_safe is called with: three fields around two
\* separators, and texts that are no dates
DateFieldTexts ==
    {<<"1">>,
     <<"0", "2">>,
     <<"1", "2">>,
     <<"1", "3">>,
     <<"2", "9">>,
     <<"3", "1">>,
     <<"0", "0">>,
     <<"2", "3">>,
     <<"2", "4">>,
     <<"6", "9">>,
     <<"2", "0", "2", "3">>,
     <<"2", "0", "2", "4">>,
     <<"0", "0", "0", "0">>,
     <<" ", "5">>}
DateSeparators == {"/", "-"}
DateArgs ==
    {f1 \o <<s1>> \o f2 \o <<s2>> \o f3 :
        f1 \in DateFieldTexts, f2 \in DateFieldTexts, f3 \in DateFieldTexts,
        s1 \in DateSeparators, s2 \in DateSeparators}
    \cup DateTexts

DateStart == date_x \in DateArgs /\ parsed = NA /\ dpc = "start"
DateIdle == date_x = <<>> /\ parsed = NA /\ dpc = "idle"

\* the call _parse_date_safe(x)
ParseDate ==
    /\ component = "dates"
    /\ dpc = "start"
    /\ parsed' = _parse_date_safe(Str(date_x))
    /\ dpc' = "done"
    /\ UNCHANGED <<component, date_x, retryVars, normVars, connVars, ingestVars, procVars, tierVars, settingsVars>>

NextDate == ParseDate


(* ====================================================================== *)
(* src/utils/data_processor.py : DataProcessor                             *)
(* ====================================================================== *)
(* ------------------------------ numbers ------------------------------- *)
\* A computed number is a fraction n/d in lowest terms (d > 0); the floats
\* of the program are taken as exact values.  np.inf is its own value.
RECURSIVE Gcd(_, _)
Gcd(a, b) == IF b = 0 THEN a ELSE Gcd(b, a % b)
Abs(a) == IF a < 0 THEN 0 - a ELSE a
Rat(n, d) ==
    LET g == Gcd(Abs(n), Abs(d))
        sgn == IF d < 0 THEN 0 - 1 ELSE 1
    IN [t |-> "rat", s |-> <<>>, m |-> (sgn * n) \div g, e |-> (sgn * d) \div g]
Inf(sign) == [t |-> "inf", s |-> <<>>, m |-> sign, e |-> 0]
RECURSIVE Pow10(_)
Pow10(n) == IF n <= 0 THEN 1 ELSE 10 * Pow10(n - 1)
\* the value of a numeric cell as a fraction
RatOf(c) == IF c.t = "num" THEN Rat(c.m, Pow10(c.e)) ELSE c
IsNumber(c) == c.t \in {"num", "rat"}
RatAdd(a, b) == Rat((a.m * b.e) + (b.m * a.e), a.e * b.e)
RatSub(a, b) == Rat((a.m * b.e) - (b.m * a.e), a.e * b.e)
RatMul(a, b) == Rat(a.m * b.m, a.e * b.e)
RatDiv(a, b) == Rat(a.m * b.e, a.e * b.m)

\* pd.to_numeric(series, errors='coerce') of one cell: numbers stay, a
\* string is parsed, anything else is NaN
ToNumericCell(c) ==
    IF IsNumber(c) THEN c ELSE IF c.t = "str" THEN ToNumeric(c.s) ELSE NA

\* the numbers of a series, missing values skipped (skipna)
Numbers(series) == SelectSeq([k \in 1..Len(series) |-> ToNumericCell(series[k])], IsNumber)
RECURSIVE RatSum(_)
RatSum(q) == IF q = <<>> THEN Rat(0, 1) ELSE RatAdd(RatOf(Head(q)), RatSum(Tail(q)))
\* Series.sum(): 0 when there is no number
SeriesSum(series) == RatSum(Numbers(series))
\* Series.mean(): NaN when there is no number
SeriesMean(series) ==
    IF Numbers(series) = <<>> THEN NA
    ELSE RatDiv(RatSum(Numbers(series)), Rat(Len(Numbers(series)), 1))

RECURSIVE Isqrt(_)
\* the integer part of the square root
Isqrt(n) ==
    IF n < 2 THEN n
    ELSE LET lo == 2 * Isqrt(n \div 4)
         IN IF (lo + 1) * (lo + 1) > n THEN lo ELSE lo + 1

\* round(v, 2) of a fraction: the nearest hundredth
Round2(v) ==
    IF ~IsNumber(v) THEN v
    ELSE Rat(((200 * RatOf(v).m) + RatOf(v).e) \div (2 * RatOf(v).e), 100)

\* the squared deviations n * sum(x^2) - sum(x)^2 of the numbers, as a
\* fraction (the variance is this over n * (n - 1))
SumSquares(q) == RatSum([k \in 1..Len(q) |-> RatMul(RatOf(q[k]), RatOf(q[k]))])
Deviation(q) ==
    RatSub(RatMul(Rat(Len(q), 1), SumSquares(q)), RatMul(RatSum(q), RatSum(q)))
\* Series.std() (ddof = 1) rounded to two decimals, in hundredths: NaN
\* with fewer than two numbers
StdRound2(series) ==
    LET q == Numbers(series)
        n == Len(q)
        dev == Deviation(q)
        \* (2 * 100 * std)^2 = 40000 * dev / (n * (n - 1))
        y == Isqrt((40000 * dev.m) \div (dev.e * n * (n - 1)))
    IN IF n < 2 THEN NA ELSE Rat((y + 1) \div 2, 100)

(* ------------------------------ group-by ------------------------------ *)
\* the order of the characters used in keys (their code points ascend in
\* this order)
CharOrder == <<" ">> \o Digits \o UpperCase \o LowerCase
Ord(c) == CHOOSE k \in 1..Len(CharOrder) : CharOrder[k] = c
RECURSIVE StrLess(_, _)
\* a < b for two strings
StrLess(a, b) ==
    IF b = <<>> THEN FALSE
    ELSE IF a = <<>> THEN TRUE
    ELSE IF Head(a) # Head(b) THEN Ord(Head(a)) < Ord(Head(b))
    ELSE StrLess(Tail(a), Tail(b))
RECURSIVE SortedKeys(_)
\* the keys of a group-by, in ascending order
SortedKeys(keys) ==
    IF keys = {} THEN <<>>
    ELSE LET first == CHOOSE k \in keys : \A o \in keys \ {k} : StrLess(k.s, o.s)
         IN <<first>> \o SortedKeys(keys \ {first})
\* df.groupby(col): the keys, rows with a missing key left out
GroupKeys(d, j) ==
    SortedKeys({d.data[r][j] : r \in 1..Len(d.data)} \ {NA})
\* the cells of column jval in the rows of the group
GroupSeries(d, jkey, key, jval) ==
    LET rows == KeepIdx(d.data, [r \in 1..Len(d.data) |-> d.data[r][jkey] = key])
    IN [r \in 1..Len(rows) |-> rows[r][jval]]

(* ---------------------- _process_provider_data ------------------------ *)
sAvgSessionDuration == <<"A", "v", "g", " ", "S", "e", "s", "s", "i", "o", "n", " ", "D", "u", "r", "a", "t", "i", "o", "n">>
sPatientCountSum == <<"P", "a", "t", "i", "e", "n", "t", " ", "C", "o", "u", "n", "t", "_", "s", "u", "m">>
sPatientCountMean == <<"P", "a", "t", "i", "e", "n", "t", " ", "C", "o", "u", "n", "t", "_", "m", "e", "a", "n">>
sPatientCountStd == <<"P", "a", "t", "i", "e", "n", "t", " ", "C", "o", "u", "n", "t", "_", "s", "t", "d">>
sAvgSessionDurationMean == <<"A", "v", "g", " ", "S", "e", "s", "s", "i", "o", "n", " ", "D", "u", "r", "a", "t", "i", "o", "n", "_", "m", "e", "a", "n">>
sConsistencyScore == <<"C", "o", "n", "s", "i", "s", "t", "e", "n", "c", "y", "_", "S", "c", "o", "r", "e">>
KeyError(text) == [type |-> "KeyError", key |-> text]

\* a mutant: the missing score is not replaced
FillNa100_Keep(c) == c

\* .fillna(100)
FillNa100(c) == IF c = NA THEN Rat(100, 1) ELSE c

\* 100 - (std / mean * 100) in float arithmetic: a missing operand gives
\* NaN, 0 / 0 gives NaN, a positive std over a zero mean gives inf and the
\* score -inf
ScoreOf(std, mean) ==
    IF std = NA \/ mean = NA THEN NA
    ELSE IF mean.m = 0 THEN (IF std.m = 0 THEN NA ELSE Inf(0 - 1))
    ELSE RatSub(Rat(100, 1), RatMul(RatDiv(std, mean), Rat(100, 1)))

\* one row of provider_stats, for the group of `key`
ProviderStatsRow(d, key) ==
    LET jp == ColumnIndex(d, sProvider)
        counts == GroupSeries(d, jp, key, ColumnIndex(d, sPatientCount))
        durations == GroupSeries(d, jp, key, ColumnIndex(d, sAvgSessionDuration))
        mean == Round2(SeriesMean(counts))
        std == StdRound2(counts)
    IN <<key, Round2(SeriesSum(counts)), mean, std, Round2(SeriesMean(durations)),
         FillNa100(ScoreOf(std, mean))>>

\* _process_provider_data: the table, or the KeyError of a missing column
_process_provider_data(raw) ==
    IF "Patient Count" \notin DOMAIN raw \/ DfEmpty(raw["Patient Count"])
    THEN Returned(EmptyDataFrame)
    ELSE LET d == raw["Patient Count"]
         IN IF ~HasColumn(d, sPatientCount) THEN Raised(KeyError(sPatientCount))
            ELSE IF ~HasColumn(d, sAvgSessionDuration)
                 THEN Raised(KeyError(sAvgSessionDuration))
            ELSE IF ~HasColumn(d, sProvider) THEN Raised(KeyError(sProvider))
            ELSE LET keys == GroupKeys(d, ColumnIndex(d, sProvider))
                 IN Returned(
                      [columns |-> <<Str(sProvider), Str(sPatientCountSum),
                                     Str(sPatientCountMean), Str(sPatientCountStd),
                                     Str(sAvgSessionDurationMean), Str(sConsistencyScore)>>,
                       data |-> [k \in 1..Len(keys) |-> ProviderStatsRow(d, keys[k])]])

(* --------------------------- tier functions --------------------------- *)
sUnknown == <<"U", "n", "k", "n", "o", "w", "n">>
sExcellent == <<"E", "x", "c", "e", "l", "l", "e", "n", "t">>
sGood == <<"G", "o", "o", "d">>
sFair == <<"F", "a", "i", "r">>
sNeedsImprovement == <<"N", "e", "e", "d", "s", " ", "I", "m", "p", "r", "o", "v", "e", "m", "e", "n", "t">>
sHigh == <<"H", "i", "g", "h">>
sMedium == <<"M", "e", "d", "i", "u", "m">>
sLow == <<"L", "o", "w">>
sSenior == <<"S", "e", "n", "i", "o", "r">>
sIntermediate == <<"I", "n", "t", "e", "r", "m", "e", "d", "i", "a", "t", "e">>
sJunior == <<"J", "u", "n", "i", "o", "r">>
sPoor == <<"P", "o", "o", "r">>
\* pd.isna(v)
IsNa(c) == c = NA
\* v >= k / 10 for a number v
AtLeast(c, tenths) == 10 * RatOf(c).m >= tenths * RatOf(c).e

\* a mutant: a value equal to a threshold falls in the lower tier
_categorize_performance_Strict(efficiency) ==
    IF IsNa(efficiency) THEN Str(sUnknown)
    ELSE IF AtLeast(efficiency, 951) THEN Str(sExcellent)
    ELSE IF AtLeast(efficiency, 901) THEN Str(sGood)
    ELSE IF AtLeast(efficiency, 801) THEN Str(sFair)
    ELSE Str(sNeedsImprovement)

_categorize_performance(efficiency) ==
    IF IsNa(efficiency) THEN Str(sUnknown)
    ELSE IF AtLeast(efficiency, 950) THEN Str(sExcellent)
    ELSE IF AtLeast(efficiency, 900) THEN Str(sGood)
    ELSE IF AtLeast(efficiency, 800) THEN Str(sFair)
    ELSE Str(sNeedsImprovement)

_categorize_workload(patients) ==
    IF IsNa(patients) THEN Str(sUnknown)
    ELSE IF AtLeast(patients, 1000) THEN Str(sHigh)
    ELSE IF AtLeast(patients, 700) THEN Str(sMedium)
    ELSE Str(sLow)

_categorize_experience(training_hours) ==
    IF IsNa(training_hours) THEN Str(sUnknown)
    ELSE IF AtLeast(training_hours, 150) THEN Str(sSenior)
    ELSE IF AtLeast(training_hours, 100) THEN Str(sIntermediate)
    ELSE Str(sJunior)

_categorize_rating(rating) ==
    IF IsNa(rating) THEN Str(sUnknown)
    ELSE IF AtLeast(rating, 45) THEN Str(sExcellent)
    ELSE IF AtLeast(rating, 40) THEN Str(sGood)
    ELSE IF AtLeast(rating, 35) THEN Str(sFair)
    ELSE Str(sPoor)

TierFunctions == {"_categorize_performance", "_categorize_workload",
                  "_categorize_experience", "_categorize_rating"}
Categorize(f, c) ==
    CASE f = "_categorize_performance" -> _categorize_performance(c)
      [] f = "_categorize_workload" -> _categorize_workload(c)
      [] f = "_categorize_experience" -> _categorize_experience(c)
      [] f = "_categorize_rating" -> _categorize_rating(c)

(* ----------------------- _process_scribe_data ------------------------- *)
sTeamLeader == <<"T", "e", "a", "m", " ", "L", "e", "a", "d", "e", "r">>
sEfficiencyScore == <<"E", "f", "f", "i", "c", "i", "e", "n", "c", "y", " ", "S", "c", "o", "r", "e">>
sMonthlyPatients == <<"M", "o", "n", "t", "h", "l", "y", " ", "P", "a", "t", "i", "e", "n", "t", "s">>
sAvgSessionLength == <<"A", "v", "g", " ", "S", "e", "s", "s", "i", "o", "n", " ", "L", "e", "n", "g", "t", "h">>
sProviderRating == <<"P", "r", "o", "v", "i", "d", "e", "r", " ", "R", "a", "t", "i", "n", "g">>
sAttendanceRate == <<"A", "t", "t", "e", "n", "d", "a", "n", "c", "e", " ", "R", "a", "t", "e">>
sTrainingHours == <<"T", "r", "a", "i", "n", "i", "n", "g", " ", "H", "o", "u", "r", "s">>
sPerformanceCategory == <<"P", "e", "r", "f", "o", "r", "m", "a", "n", "c", "e", " ", "C", "a", "t", "e", "g", "o", "r", "y">>
sWorkloadCategory == <<"W", "o", "r", "k", "l", "o", "a", "d", " ", "C", "a", "t", "e", "g", "o", "r", "y">>
sExperienceLevel == <<"E", "x", "p", "e", "r", "i", "e", "n", "c", "e", " ", "L", "e", "v", "e", "l">>
sTeamAvg == <<"_", "T", "e", "a", "m", "_", "A", "v", "g">>

\* `for col, fallback in [...]`: the columns added when absent and what
\* fills them (None is a missing value)
Fallbacks ==
    <<[col |-> sEfficiencyScore, fallback |-> NA],
      [col |-> sMonthlyPatients, fallback |-> Num(0, 0)],
      [col |-> sAvgSessionLength, fallback |-> NA],
      [col |-> sProviderRating, fallback |-> NA],
      [col |-> sAttendanceRate, fallback |-> NA],
      [col |-> sTrainingHours, fallback |-> NA],
      [col |-> sTeamLeader, fallback |-> Str(sUnknown)]>>
RECURSIVE AddFallbacks(_, _)
\* `if col not in df.columns: df[col] = fallback`, from the k-th pair on
AddFallbacks(d, k) ==
    IF k > Len(Fallbacks) THEN d
    ELSE AddFallbacks(IF HasColumn(d, Fallbacks[k].col) THEN d
                      ELSE AppendColumn(d, Fallbacks[k].col,
                                        [r \in 1..Len(d.data) |-> Fallbacks[k].fallback]),
                      k + 1)

\* the columns coerced with pd.to_numeric(errors='coerce')
NumericColumns ==
    <<sEfficiencyScore, sMonthlyPatients, sAvgSessionLength, sProviderRating,
      sAttendanceRate>>
RECURSIVE CoerceNumeric(_, _)
\* `df.loc[:, col] = pd.to_numeric(df[col], errors='coerce')`, from the
\* k-th column on
CoerceNumeric(d, k) ==
    IF k > Len(NumericColumns) THEN d
    ELSE CoerceNumeric(
            SetColumn(d, ColumnIndex(d, NumericColumns[k]),
                      [r \in 1..Len(d.data) |->
                          ToNumericCell(d.data[r][ColumnIndex(d, NumericColumns[k])])]),
            k + 1)

\* df[new] = df[col].apply(f)
AddCategory(d, col, new, f) ==
    AppendColumn(d, new, [r \in 1..Len(d.data) |-> Categorize(f, d.data[r][ColumnIndex(d, col)])])

\* one row of team_stats: the mean, the sum and the mean of the group
TeamStats(d, key) ==
    LET jt == ColumnIndex(d, sTeamLeader)
    IN <<SeriesMean(GroupSeries(d, jt, key, ColumnIndex(d, sEfficiencyScore))),
         SeriesSum(GroupSeries(d, jt, key, ColumnIndex(d, sMonthlyPatients))),
         SeriesMean(GroupSeries(d, jt, key, ColumnIndex(d, sProviderRating)))>>
\* the labels of team_stats after .add_suffix('_Team_Avg')
TeamColumns ==
    <<Str(sEfficiencyScore \o sTeamAvg), Str(sMonthlyPatients \o sTeamAvg),
      Str(sProviderRating \o sTeamAvg)>>
\* groupby(team_col) leaves out the rows without key: no row of team_stats
HasGroup(d, r) == d.data[r][ColumnIndex(d, sTeamLeader)] # NA

\* a mutant: an inner join, the rows without group are dropped
MergeTeamStats_Inner(d) ==
    [columns |-> d.columns \o TeamColumns,
     data |-> LET rows == KeepIdx([r \in 1..Len(d.data) |-> [row |-> d.data[r], r |-> r]],
                                  [r \in 1..Len(d.data) |-> HasGroup(d, r)])
              IN [k \in 1..Len(rows) |->
                     rows[k].row \o TeamStats(d, rows[k].row[ColumnIndex(d, sTeamLeader)])]]

\* df.merge(team_stats, left_on=team_col, right_index=True, how='left')
MergeTeamStats(d) ==
    [columns |-> d.columns \o TeamColumns,
     data |-> [r \in 1..Len(d.data) |->
                  d.data[r] \o
                  (IF HasGroup(d, r)
                   THEN TeamStats(d, d.data[r][ColumnIndex(d, sTeamLeader)])
                   ELSE <<NA, NA, NA>>)]]

TypeError == [type |-> "TypeError", key |-> <<>>]

\* _process_scribe_data: the table, or the TypeError of comparing a string
\* of 'Training Hours' (the one column categorized without to_numeric)
_process_scribe_data(raw) ==
    IF "Dataset" \notin DOMAIN raw \/ DfEmpty(raw["Dataset"])
    THEN Returned(EmptyDataFrame)
    ELSE LET d1 == CoerceNumeric(AddFallbacks(raw["Dataset"], 1), 1)
             d2 == AddCategory(d1, sEfficiencyScore, sPerformanceCategory,
                               "_categorize_performance")
             d3 == AddCategory(d2, sMonthlyPatients, sWorkloadCategory,
                               "_categorize_workload")
             jh == ColumnIndex(d1, sTrainingHours)
         IN IF \E r \in 1..Len(d1.data) : d1.data[r][jh].t = "str"
            THEN Raised(TypeError)
            ELSE Returned(MergeTeamStats(
                    AddCategory(d3, sTrainingHours, sExperienceLevel,
                                "_categorize_experience")))

(* ------------------------ _process_session_data ----------------------- *)
\* monthly_sheets
MonthlySheets == <<"August", "July", "May", "February", "January">>
\* the label of a monthly tab as the text of a cell
MonthText(month) ==
    CASE month = "August" -> <<"A", "u", "g", "u", "s", "t">>
      [] month = "July" -> <<"J", "u", "l", "y">>
      [] month = "May" -> <<"M", "a", "y">>
      [] month = "February" -> <<"F", "e", "b", "r", "u", "a", "r", "y">>
      [] month = "January" -> <<"J", "a", "n", "u", "a", "r", "y">>
sMonth == <<"M", "o", "n", "t", "h">>
sSessionRating == <<"S", "e", "s", "s", "i", "o", "n", " ", "R", "a", "t", "i", "n", "g">>
sRatingCategory == <<"R", "a", "t", "i", "n", "g", "_", "C", "a", "t", "e", "g", "o", "r", "y">>
sDurationHours == <<"D", "u", "r", "a", "t", "i", "o", "n", "_", "H", "o", "u", "r", "s">>
\* the monthly tabs that are there and not empty
AllSessions(raw) ==
    SelectSeq(MonthlySheets, LAMBDA month : month \in DOMAIN raw /\ ~DfEmpty(raw[month]))
\* df[text] = series: the column is replaced if it is there, else added
\* as the last column
AssignColumn(d, text, series) ==
    IF HasColumn(d, text) THEN SetColumn(d, ColumnIndex(d, text), series)
    ELSE AppendColumn(d, text, series)

\* a mutant: every table gets the label of the first monthly sheet
LabelMonth_First(d, month) ==
    AssignColumn(d, sMonth, [r \in 1..Len(d.data) |-> Str(MonthText(MonthlySheets[1]))])

\* month_data = self.raw_data[month].copy(); month_data['Month'] = month
LabelMonth(d, month) ==
    AssignColumn(d, sMonth, [r \in 1..Len(d.data) |-> Str(MonthText(month))])

RECURSIVE UnionColumns(_)
\* the labels of the frames of a concat, in the order of first appearance
UnionColumns(frames) ==
    IF frames = <<>> THEN <<>>
    ELSE LET before == UnionColumns(SubSeq(frames, 1, Len(frames) - 1))
             last == frames[Len(frames)].columns
         IN before \o SelectSeq(last, LAMBDA c : \A k \in 1..Len(before) : before[k] # c)
\* a row of frame d laid out under the labels `columns`: NaN where the
\* frame has no such column
Reindexed(d, row, columns) ==
    [j \in 1..Len(columns) |->
        IF \E k \in 1..Len(d.columns) : d.columns[k] = columns[j]
        THEN row[CHOOSE k \in 1..Len(d.columns) : d.columns[k] = columns[j]]
        ELSE NA]
RECURSIVE ConcatRows(_, _)
ConcatRows(frames, columns) ==
    IF frames = <<>> THEN <<>>
    ELSE [r \in 1..Len(Head(frames).data) |-> Reindexed(Head(frames), Head(frames).data[r], columns)]
         \o ConcatRows(Tail(frames), columns)
\* pd.concat(all_sessions, ignore_index=True)
Concat(frames) ==
    [columns |-> UnionColumns(frames), data |-> ConcatRows(frames, UnionColumns(frames))]

\* [col for col in df.columns if key in col.lower()]
ColumnsWith(d, key) ==
    SelectSeq(d.columns, LAMBDA c : Contains(Lower(LabelStr(c)), key))
\* df[text] = pd.to_numeric(df[cols[0]], errors='coerce') if cols
NumericCopy(d, cols, text) ==
    IF cols = <<>> THEN d
    ELSE AssignColumn(d, text,
            [r \in 1..Len(d.data) |->
                ToNumericCell(d.data[r][CHOOSE j \in 1..Len(d.columns) : d.columns[j] = cols[1]])])
\* _process_monthly_data of a table without date and time columns (the
\* tables explored have none): 'Patient Count' and 'Session Rating' are
\* numeric copies of the first column named after patients / rating, and
\* 'Rating_Category' is the tier of 'Session Rating'
_process_monthly_data(d) ==
    CASE DfEmpty(d) -> d
      [] ~DfEmpty(d) /\ ColumnsWith(d, <<"d", "a", "t", "e">>) = <<>>
                     /\ ColumnsWith(d, <<"t", "i", "m", "e">>) = <<>> ->
            LET d1 == NumericCopy(d, ColumnsWith(d, <<"p", "a", "t", "i", "e", "n", "t">>),
                                  sPatientCount)
                d2 == NumericCopy(d1, ColumnsWith(d1, <<"r", "a", "t", "i", "n", "g">>),
                                  sSessionRating)
            IN IF HasColumn(d2, sSessionRating)
               THEN AddCategory(d2, sSessionRating, sRatingCategory, "_categorize_rating")
               ELSE d2

\* _process_session_data: the labelled copies of the monthly tabs that
\* have rows, concatenated and processed; pd.DataFrame() when there is
\* none (the second look at 'August' then finds it missing or empty too)
_process_session_data(raw) ==
    IF AllSessions(raw) = <<>> THEN Returned(EmptyDataFrame)
    ELSE Returned(_process_monthly_data(
            Concat([k \in 1..Len(AllSessions(raw)) |->
                       LabelMonth(raw[AllSessions(raw)[k]], AllSessions(raw)[k])])))

(* -------------------------- _calculate_metrics ------------------------ *)
\* scribe_df.groupby('Team Leader').agg({...}).round(2).to_dict():
\* column -> team -> value
TeamComparison(d) ==
    LET keys == GroupKeys(d, ColumnIndex(d, sTeamLeader))
        teams == {keys[k] : k \in 1..Len(keys)}
    IN [c \in {sEfficiencyScore, sMonthlyPatients, sProviderRating} |->
          [key \in teams |->
              Round2(TeamStats(d, key)[CASE c = sEfficiencyScore -> 1
                                         [] c = sMonthlyPatients -> 2
                                         [] c = sProviderRating -> 3])]]

NoMetrics == [k \in {} |-> NA]
\* the metrics read from the scribes table
ScribeMetrics(d) ==
    [k \in {"total_scribes", "avg_efficiency", "total_monthly_patients",
            "avg_provider_rating", "team_comparison"} |->
        CASE k = "total_scribes" -> Len(d.data)
          [] k = "avg_efficiency" -> SeriesMean(Column(d, ColumnIndex(d, sEfficiencyScore)))
          [] k = "total_monthly_patients" -> SeriesSum(Column(d, ColumnIndex(d, sMonthlyPatients)))
          [] k = "avg_provider_rating" -> SeriesMean(Column(d, ColumnIndex(d, sProviderRating)))
          [] k = "team_comparison" -> TeamComparison(d)]
\* the metrics read from the providers table
ProviderMetrics(d) ==
    [k \in {"total_providers", "avg_patients_per_provider"} |->
        CASE k = "total_providers" -> Len(d.data)
          [] k = "avg_patients_per_provider" ->
                SeriesMean(Column(d, ColumnIndex(d, sPatientCountMean)))]

\* _calculate_metrics over self.processed_data: the scribe and provider
\* metrics when the sessions table is empty; a sessions table with rows
\* but without the column 'Duration_Hours' (no start and end time columns
\* in the monthly tabs) raises the KeyError of session_df['Duration_Hours']
_calculate_metrics(processed) ==
    CASE DfEmpty(processed["sessions"]) ->
            Returned((IF ~DfEmpty(processed["scribes"])
                      THEN ScribeMetrics(processed["scribes"]) ELSE NoMetrics)
                     @@ (IF ~DfEmpty(processed["providers"])
                         THEN ProviderMetrics(processed["providers"]) ELSE NoMetrics))
      [] ~DfEmpty(processed["sessions"])
            /\ ~HasColumn(processed["sessions"], sDurationHours) ->
            Raised(KeyError(sDurationHours))

(* --------------------------- _process_all_data ------------------------ *)
NoData == [k \in {} |-> EmptyDataFrame]
ProcessKeys == <<"scribes", "providers", "sessions", "metrics">>
\* the k-th statement of the try block
ProcessStep(k, raw, processed) ==
    CASE k = 1 -> _process_scribe_data(raw)
      [] k = 2 -> _process_provider_data(raw)
      [] k = 3 -> _process_session_data(raw)
      [] k = 4 -> _calculate_metrics(processed)

\* a mutant: _process_scribe_data works on the caller's table itself, which
\* gets the fallback columns
RawAfter_InPlace(k, raw) ==
    IF k = 1 /\ "Dataset" \in DOMAIN raw /\ ~DfEmpty(raw["Dataset"])
    THEN [raw EXCEPT !["Dataset"] = AddFallbacks(raw["Dataset"], 1)]
    ELSE raw

\* the caller's tables after the k-th statement: every statement reads
\* self.raw_data[...] and works on its .copy()
RawAfter(k, raw) == raw

RECURSIVE ProcessSteps(_, _, _)
RECURSIVE AfterStep(_, _, _, _)
\* the try block from its k-th statement on: `processed` holds what the
\* statements before it stored
ProcessSteps(k, raw, processed) ==
    IF k > Len(ProcessKeys)
    THEN [processed_data |-> processed, error |-> "None", raw_data |-> raw]
    ELSE AfterStep(k, raw, processed, ProcessStep(k, raw, processed))
\* `except Exception as e: st.error(...)` ends the block; else the result
\* is stored and the next statement runs
AfterStep(k, raw, processed, step) ==
    IF step.kind = "raised"
    THEN [processed_data |-> processed, error |-> step.err, raw_data |-> RawAfter(k, raw)]
    ELSE ProcessSteps(k + 1, RawAfter(k, raw), (ProcessKeys[k] :> step.value) @@ processed)
_process_all_data(raw) == ProcessSteps(1, raw, NoData)

(* ------------------------- the calls explored ------------------------- *)
sScribeName == sScribe
\* the cells explored under a label of the 'Dataset' tab and of the
\* 'Patient Count' tab
DatasetCells(label) ==
    CASE label = sScribeName -> {Str(<<"A">>)}
      [] label = sTeamLeader -> {Str(<<"T">>), Str(<<"t">>), NA}
      [] label = sEfficiencyScore -> {Num(95, 0), Num(80, 0), NA}
      [] label = sMonthlyPatients -> {Num(100, 0), Num(60, 0), NA}
PatientCountCells(label) ==
    CASE label = sProvider -> {Str(<<"P">>), Str(<<"Q">>)}
      [] label = sPatientCount -> {Num(80, 0), Num(5, 0), Num(0, 0), Num(0 - 5, 0), NA}
      [] label = sAvgSessionDuration -> {Num(3, 0)}
\* the labels of the tabs: all of them, or with a column left out
DatasetHeaders ==
    {<<sScribeName, sTeamLeader, sEfficiencyScore, sMonthlyPatients>>,
     <<sScribeName, sEfficiencyScore, sMonthlyPatients>>,
     <<sScribeName, sTeamLeader, sEfficiencyScore>>}
PatientCountHeader == <<sProvider, sPatientCount, sAvgSessionDuration>>
DatasetRows ==
    [h \in DatasetHeaders |->
        {r \in [1..Len(h) -> UNION {DatasetCells(h[j]) : j \in 1..Len(h)}] :
            \A j \in 1..Len(h) : r[j] \in DatasetCells(h[j])}]
PatientCountRows ==
    {r \in [1..Len(PatientCountHeader) ->
            UNION {PatientCountCells(PatientCountHeader[j]) : j \in 1..Len(PatientCountHeader)}] :
        \A j \in 1..Len(PatientCountHeader) : r[j] \in PatientCountCells(PatientCountHeader[j])}
\* one table of each tab, used while the other tab varies
OneDataset ==
    [columns |-> StrRow(<<sScribeName, sTeamLeader, sEfficiencyScore, sMonthlyPatients>>),
     data |-> << <<Str(<<"A">>), Str(<<"T">>), Num(95, 0), Num(100, 0)>> >>]
OnePatientCount ==
    [columns |-> StrRow(PatientCountHeader),
     data |-> << <<Str(<<"P">>), Num(80, 0), Num(3, 0)>> >>]
\* a 'Patient Count' tab without the column 'Avg Session Duration'
ShortPatientCount ==
    [columns |-> StrRow(<<sProvider, sPatientCount>>),
     data |-> << <<Str(<<"P">>), Num(80, 0)>> >>]

\* the dict of get_all_sheets: the four tabs, an empty table for a tab
\* that could not be loaded
RawData(dataset, patient_count) ==
    [tab \in SheetNames |->
        CASE tab = "Dataset" -> dataset
          [] tab = "Patient Count" -> patient_count
          [] OTHER -> EmptyDataFrame]

\* the monthly tabs explored: labels without date and time columns
sPatients == <<"P", "a", "t", "i", "e", "n", "t", "s">>
sRating == <<"R", "a", "t", "i", "n", "g">>
SessionCells(label) ==
    CASE label = sScribeName -> {Str(<<"A">>)}
      [] label = sPatients -> {Num(7, 0), NA}
      [] label = sRating -> {Num(45, 1), NA}
      [] label = sMonth -> {Str(<<"Q">>)}
SessionHeaders ==
    {<<sScribeName, sPatients>>, <<sScribeName, sRating>>, <<sMonth, sPatients>>}
SessionRows ==
    [h \in SessionHeaders |->
        {r \in [1..Len(h) -> UNION {SessionCells(h[j]) : j \in 1..Len(h)}] :
            \A j \in 1..Len(h) : r[j] \in SessionCells(h[j])}]
\* the tables of at most n rows under a header, the table without rows
\* included
TablesUnder(h, n) ==
    UNION {{[columns |-> StrRow(h), data |-> rows] : rows \in [1..k -> SessionRows[h]]} :
           k \in 0..n}
\* the dict handed in when the monthly tabs `present` hold the tables given
SessionRaw(present, august, july, may) ==
    [tab \in {"Dataset", "Patient Count"} \cup present |->
        CASE tab = "Dataset" -> OneDataset
          [] tab = "Patient Count" -> OnePatientCount
          [] tab = "August" -> august
          [] tab = "July" -> july
          [] tab = "May" -> may]

\* DataProcessor(raw_data) is about to be constructed
ProcStart ==
    /\ \/ \E h \in DatasetHeaders, n \in 1..MaxScribeRows :
             \E rows \in [1..n -> DatasetRows[h]] :
                raw_data = RawData([columns |-> StrRow(h), data |-> rows], OnePatientCount)
       \/ \E n \in 1..MaxProviderRows :
             \E rows \in [1..n -> PatientCountRows] :
                raw_data = RawData(OneDataset,
                                   [columns |-> StrRow(PatientCountHeader), data |-> rows])
       \/ \E dataset \in {EmptyDataFrame, OneDataset},
             patient_count \in {EmptyDataFrame, ShortPatientCount} :
                raw_data = RawData(dataset, patient_count)
       \/ \E present \in SUBSET {"August", "July", "May"} :
             \E august \in {EmptyDataFrame}
                             \cup TablesUnder(<<sScribeName, sPatients>>, MaxSessionRows),
                july \in TablesUnder(<<sScribeName, sRating>>, MaxSessionRows)
                             \cup TablesUnder(<<sMonth, sPatients>>, 1),
                may \in TablesUnder(<<sScribeName, sPatients>>, 1) :
                raw_data = SessionRaw(present, august, july, may)
    /\ processed_data = NoData
    /\ st_error = "None"
    /\ ppc = "start"
    /\ reads = <<>>

\* DataProcessor.__init__: self.raw_data = raw_data; self.processed_data = {};
\* self._process_all_data().  process_data(raw_data) constructs a
\* DataProcessor; it is called once more with the same dict (ppc "rebuilt").
NewDataProcessor ==
    /\ component = "processor"
    /\ ppc \in {"start", "done"}
    /\ \E r \in {_process_all_data(raw_data)} :
          /\ processed_data' = r.processed_data
          /\ st_error' = r.error
          /\ raw_data' = r.raw_data
    /\ ppc' = IF ppc = "start" THEN "done" ELSE "rebuilt"
    /\ UNCHANGED <<component, reads, retryVars, normVars, connVars, ingestVars,
                   dateVars, tierVars, settingsVars>>

NextProc == NewDataProcessor

(* ------------------------------ accessors ----------------------------- *)
\* what an accessor hands back: its result, and self.processed_data after
\* the call (no accessor assigns to it)
Read(processed, result) == [result |-> result, processed_data |-> processed]
\* `if name:` of an optional string
Truthy(name) == name # NA /\ name # Str(<<>>)
\* df[df[text] == name]: the rows whose cell equals the name, or the
\* KeyError of a table without the column
RowsNamed(d, text, name) ==
    IF ~HasColumn(d, text) THEN Raised(KeyError(text))
    ELSE Returned([d EXCEPT !.data =
                      KeepIdx(d.data, [r \in 1..Len(d.data) |->
                                          d.data[r][ColumnIndex(d, text)] = name])])
\* {}
EmptyDict == [k \in {} |-> NA]

\* get_scribe_performance(scribe_name)
get_scribe_performance(processed, scribe_name) ==
    Read(processed,
         IF "scribes" \notin DOMAIN processed THEN Returned(EmptyDataFrame)
         ELSE IF Truthy(scribe_name)
              THEN RowsNamed(processed["scribes"], sScribe, scribe_name)
              ELSE Returned(processed["scribes"]))

\* get_team_comparison(): metrics.get('team_comparison', {})
get_team_comparison(processed) ==
    Read(processed,
         IF "metrics" \notin DOMAIN processed THEN Returned(EmptyDict)
         ELSE IF "team_comparison" \in DOMAIN processed["metrics"]
              THEN Returned(processed["metrics"]["team_comparison"])
              ELSE Returned(EmptyDict))

\* get_provider_analysis(provider_name)
get_provider_analysis(processed, provider_name) ==
    Read(processed,
         IF "providers" \notin DOMAIN processed THEN Returned(EmptyDataFrame)
         ELSE IF Truthy(provider_name)
              THEN RowsNamed(processed["providers"], sProvider, provider_name)
              ELSE Returned(processed["providers"]))

\* a mutant: the metrics are handed over and removed (dict.pop)
get_summary_stats_Pop(processed) ==
    IF "metrics" \notin DOMAIN processed THEN Read(processed, Returned(EmptyDict))
    ELSE Read([k \in DOMAIN processed \ {"metrics"} |-> processed[k]],
              Returned(processed["metrics"]))

\* get_summary_stats()
get_summary_stats(processed) ==
    Read(processed,
         IF "metrics" \notin DOMAIN processed THEN Returned(EmptyDict)
         ELSE Returned(processed["metrics"]))

\* the names asked for: none, the empty name, a name of the tables and a
\* name that is in no table
ScribeNames == {NA, Str(<<>>), Str(<<"A">>), Str(<<"Z">>)}
ProviderNames == {NA, Str(<<>>), Str(<<"P">>), Str(<<"Z">>)}
\* the raw data of the processors whose accessors are called
ProviderTable(rows) == [columns |-> StrRow(PatientCountHeader), data |-> rows]
AccessRaw ==
    {RawData(OneDataset,
             ProviderTable(<< <<Str(<<"P">>), Num(80, 0), Num(3, 0)>>,
                              <<Str(<<"P">>), Num(5, 0), Num(3, 0)>>,
                              <<Str(<<"P">>), Num(0, 0), Num(3, 0)>>,
                              <<Str(<<"Q">>), Num(80, 0), Num(3, 0)>> >>)),
     RawData(OneDataset,
             ProviderTable(<< <<Str(<<"P">>), Num(80, 0), Num(3, 0)>>,
                              <<Str(<<"P">>), Num(80, 0), Num(3, 0)>> >>)),
     RawData(OneDataset,
             ProviderTable(<< <<Str(<<"P">>), Num(80, 0), Num(3, 0)>>,
                              <<Str(<<"P">>), Num(5, 0), Num(3, 0)>> >>)),
     RawData(OneDataset,
             ProviderTable(<< <<Str(<<"P">>), Num(0 - 5, 0), Num(3, 0)>>,
                              <<Str(<<"P">>), Num(5, 0), Num(3, 0)>> >>)),
     RawData(EmptyDataFrame, EmptyDataFrame),
     RawData(OneDataset, ShortPatientCount),
     RawData(EmptyDataFrame, ShortPatientCount),
     [tab \in {} |-> EmptyDataFrame]}
\* a DataProcessor has been constructed from one of them
AccessStart ==
    /\ raw_data \in AccessRaw
    /\ \E r \in {_process_all_data(raw_data)} :
          /\ processed_data = r.processed_data
          /\ st_error = r.error
    /\ ppc = "done"
    /\ reads = <<>>
\* one accessor call: its result is recorded after the earlier ones
Accessed(call, arg, r) ==
    /\ component = "accessors"
    /\ Len(reads) < MaxReads
    /\ reads' = Append(reads, [call |-> call, arg |-> arg, result |-> r.result])
    /\ processed_data' = r.processed_data
    /\ UNCHANGED <<component, raw_data, st_error, ppc, retryVars, normVars, connVars,
                   ingestVars, dateVars, tierVars, settingsVars>>
GetScribePerformance(scribe_name) ==
    Accessed("get_scribe_performance", scribe_name,
             get_scribe_performance(processed_data, scribe_name))
GetTeamComparison ==
    Accessed("get_team_comparison", NA, get_team_comparison(processed_data))
GetProviderAnalysis(provider_name) ==
    Accessed("get_provider_analysis", provider_name,
             get_provider_analysis(processed_data, provider_name))
GetSummaryStats ==
    Accessed("get_summary_stats", NA, get_summary_stats(processed_data))
NextAccess ==
    \/ \E scribe_name \in ScribeNames : GetScribePerformance(scribe_name)
    \/ GetTeamComparison
    \/ \E provider_name \in ProviderNames : GetProviderAnalysis(provider_name)
    \/ GetSummaryStats

(* --------------------- one call of a tier function -------------------- *)
\* the numbers the tier functions are called with, in tenths: the
\* thresholds and their neighbours
TierTenths ==
    {0, 34, 35, 36, 39, 40, 41, 44, 45, 46, 99, 100, 101, 149, 150, 151,
     699, 700, 701, 799, 800, 801, 899, 900, 901, 949, 950, 951, 999, 1000, 1001}
TierArgs == {NA} \cup {NormNum(k, 1) : k \in TierTenths}
TierStart ==
    /\ tier_fn \in TierFunctions /\ tier_arg \in TierArgs
    /\ tier = NA /\ tpc = "start"
TierIdle == tier_fn = "none" /\ tier_arg = NA /\ tier = NA /\ tpc = "idle"
\* the call self.<tier function>(value)
ApplyTier ==
    /\ component = "tiers"
    /\ tpc = "start"
    /\ tier' = Categorize(tier_fn, tier_arg)
    /\ tpc' = "done"
    /\ UNCHANGED <<component, tier_fn, tier_arg, retryVars, normVars, connVars,
                   ingestVars, dateVars, procVars, settingsVars>>
NextTier == ApplyTier

\* no DataProcessor is under construction (another module is exercised)
ProcIdle ==
    /\ raw_data = <<>> /\ processed_data = <<>> /\ st_error = "None" /\ ppc = "idle"
    /\ reads = <<>>

(* ====================================================================== *)
(* scribedash/config.py : load_settings                                    *)
(* ====================================================================== *)
\* refresh_secs = 5 (the value taken on ValueError); max(2, min(60, ...))
DefaultRefreshSecs == 5
MinRefreshSecs == 2
MaxRefreshSecs == 60

\* os.getenv(name): the value of the variable, None (NA) when it is unset
GetEnv(env, name) == env[name]
\* `a or b` over optional strings: a unless it is None or empty
OrElse(a, b) == IF a = NA \/ a = Str(<<>>) THEN b ELSE a
RECURSIVE StripChars(_, _)
\* str.strip(chars): the characters of `chars` are removed at both ends
StripChars(str, chars) ==
    IF str # <<>> /\ Head(str) \in chars THEN StripChars(Tail(str), chars)
    ELSE IF str # <<>> /\ str[Len(str)] \in chars
    THEN StripChars(SubSeq(str, 1, Len(str) - 1), chars)
    ELSE str
\* raw_id: the first alias that is set and not empty, stripped of blanks
\* and of quotes
RawId(env) ==
    StripChars(StripChars(Strip(
        OrElse(OrElse(OrElse(GetEnv(env, "SPREADSHEET_ID"), GetEnv(env, "Spreadsheet_ID")),
                      GetEnv(env, "SHEET_ID")), Str(<<>>)).s), {"\""}), {"'"})
\* refresh_raw = (os.getenv("REFRESH_SECS") or "").strip()
RefreshRaw(env) == Strip(OrElse(GetEnv(env, "REFRESH_SECS"), Str(<<>>)).s)
\* try: int(refresh_raw) except ValueError: 5
RefreshParsed(refresh_raw) ==
    IF IntOf(refresh_raw) = NA THEN DefaultRefreshSecs ELSE IntOf(refresh_raw).m

\* a mutant: the value is bounded from above only
ClampRefresh_NoFloor(refresh_secs) == Min(MaxRefreshSecs, refresh_secs)

\* refresh_secs = max(2, min(60, refresh_secs))
ClampRefresh(refresh_secs) == Max(MinRefreshSecs, Min(MaxRefreshSecs, refresh_secs))

\* load_settings(): the Settings built from the environment
load_settings(env) ==
    [spreadsheet_id |-> RawId(env),
     refresh_secs |-> ClampRefresh(RefreshParsed(RefreshRaw(env))),
     credentials_path |-> "credentials.json"]

NoSettings == [spreadsheet_id |-> <<>>, refresh_secs |-> 0, credentials_path |-> "none"]
\* the values of REFRESH_SECS explored: unset, empty, blank, integers
\* below, at, within and above the bounds, and texts that are no integers
RefreshTexts ==
    {<<>>, <<" ">>, <<"5">>, <<"2">>, <<"1">>, <<"0">>, <<"-", "3">>, <<"3">>,
     <<"6", "0">>, <<"6", "1">>, <<"5", "9">>, <<"1", "0", "0">>, <<"+", "7">>,
     <<" ", "3", "0", " ">>, <<"0", "0", "7">>, <<"a", "b", "c">>, <<"5", ".", "5">>,
     <<"3", "s">>, <<"1", "e", "1">>, <<"-">>, <<"6", "0", ".", "0">>}
Optional(texts) == {NA} \cup {Str(t) : t \in texts}
\* the environment when load_settings is called
SettingsStart ==
    /\ \E refresh \in Optional(RefreshTexts),
          id1 \in Optional({<<>>, <<"\"", "a", "\"">>}),
          id2 \in Optional({<<"b">>}),
          id3 \in Optional({<<" ", "c", " ">>}) :
          environ = [name \in {"REFRESH_SECS", "SPREADSHEET_ID", "Spreadsheet_ID", "SHEET_ID"} |->
                        CASE name = "REFRESH_SECS" -> refresh
                          [] name = "SPREADSHEET_ID" -> id1
                          [] name = "Spreadsheet_ID" -> id2
                          [] name = "SHEET_ID" -> id3]
    /\ settings = NoSettings
    /\ spc = "start"
SettingsIdle == environ = <<>> /\ settings = NoSettings /\ spc = "idle"
\* the call load_settings()
LoadSettings ==
    /\ component = "settings"
    /\ spc = "start"
    /\ settings' = load_settings(environ)
    /\ spc' = "done"
    /\ UNCHANGED <<component, environ, retryVars, normVars, connVars, ingestVars,
                   dateVars, procVars, tierVars>>
NextSettings == LoadSettings

(* ====================================================================== *)
(* Specifications: one per module exercised                                *)
(* ====================================================================== *)
InitRetry ==
    /\ component = "retry"
    /\ RetryStart /\ NormIdle /\ ConnIdle /\ IngestIdle /\ DateIdle /\ ProcIdle /\ TierIdle
       /\ SettingsIdle
InitNorm ==
    /\ component = "normalizer"
    /\ NormStart /\ RetryIdle /\ ConnIdle /\ IngestIdle /\ DateIdle /\ ProcIdle /\ TierIdle
       /\ SettingsIdle
InitConn ==
    /\ component = "connector"
    /\ ConnStart /\ RetryIdle /\ NormIdle /\ IngestIdle /\ DateIdle /\ ProcIdle /\ TierIdle
       /\ SettingsIdle
InitIngest ==
    /\ component = "ingest"
    /\ IngestStart /\ RetryIdle /\ NormIdle /\ ConnIdle /\ DateIdle /\ ProcIdle /\ TierIdle
       /\ SettingsIdle
InitDate ==
    /\ component = "dates"
    /\ DateStart /\ RetryIdle /\ NormIdle /\ ConnIdle /\ IngestIdle /\ ProcIdle /\ TierIdle
       /\ SettingsIdle
InitProc ==
    /\ component = "processor"
    /\ ProcStart /\ RetryIdle /\ NormIdle /\ ConnIdle /\ IngestIdle /\ DateIdle /\ TierIdle
       /\ SettingsIdle
InitTier ==
    /\ component = "tiers"
    /\ TierStart /\ RetryIdle /\ NormIdle /\ ConnIdle /\ IngestIdle /\ DateIdle /\ ProcIdle
       /\ SettingsIdle
InitAccess ==
    /\ component = "accessors"
    /\ AccessStart /\ RetryIdle /\ NormIdle /\ ConnIdle /\ IngestIdle /\ DateIdle
       /\ TierIdle /\ SettingsIdle
InitSettings ==
    /\ component = "settings"
    /\ SettingsStart /\ RetryIdle /\ NormIdle /\ ConnIdle /\ IngestIdle /\ DateIdle
       /\ ProcIdle /\ TierIdle

SpecRetry == InitRetry /\ [][NextRetry]_vars
SpecNorm == InitNorm /\ [][NextNorm]_vars
SpecConn == InitConn /\ [][NextConn]_vars
SpecIngest == InitIngest /\ [][NextIngest]_vars
SpecDate == InitDate /\ [][NextDate]_vars
SpecProc == InitProc /\ [][NextProc]_vars
SpecTier == InitTier /\ [][NextTier]_vars
SpecSettings == InitSettings /\ [][NextSettings]_vars
SpecAccess == InitAccess /\ [][NextAccess]_vars

\* any of the modules
Init ==
    \/ InitRetry \/ InitNorm \/ InitConn \/ InitIngest \/ InitDate \/ InitProc \/ InitTier
    \/ InitSettings \/ InitAccess
Next ==
    \/ NextRetry \/ NextNorm \/ NextConn \/ NextIngest \/ NextDate \/ NextProc \/ NextTier
    \/ NextSettings \/ NextAccess
Spec == Init /\ [][Next]_vars


(* ---------------------------------------------------------------------- *)
(* Claims about _with_retries (checked under SpecRetry)                    *)
(* ---------------------------------------------------------------------- *)
IsRaise(c) == c.kind \in ErrorKinds
\* the operation raises on its first k calls
FnFirstKRaise(k) == \A n \in 1..k : IsRaise(fn[n])

\* C1: with attempts = N >= 1 and an operation that raises on its first k
\* calls (0 <= k < N) and then returns v, the wrapper returns v after exactly
\* k+1 calls, and no call is made after the first success.
C1_ReturnsAfterKFailures ==
    /\ \A k \in 0..(attempts - 1) :
          (FnFirstKRaise(k) /\ fn[k + 1].kind = "ok")
              => /\ Len(calls) <= k + 1
                 /\ outcome.kind # "raised"
                 /\ rpc = "done" =>
                       /\ outcome = Returned(fn[k + 1].value)
                       /\ Len(calls) = k + 1
    /\ \A n \in 1..Len(calls) : calls[n].kind = "ok" => n = Len(calls)

\* the spec's example: fails twice, then succeeds, attempts = 5: 3 calls
C1_Witness ==
    /\ attempts = 5 /\ rpc = "done" /\ Len(calls) = 3
    /\ IsRaise(fn[1]) /\ IsRaise(fn[2]) /\ fn[3].kind = "ok"
    /\ outcome = Returned(<<"r1", "r2">>)

\* C2: with attempts = N >= 1 and an operation that raises on every call,
\* the operation is called exactly N times and the exception of the N-th
\* call is raised unchanged; nothing is raised before the N-th failure.
C2_RaisesLastAfterN ==
    (attempts >= 1 /\ FnFirstKRaise(attempts)) =>
        /\ outcome.kind # "returned"
        /\ Len(calls) <= attempts
        /\ outcome.kind = "raised" => Len(calls) = attempts
        /\ rpc = "done" =>
              /\ Len(calls) = attempts
              /\ outcome = Raised(FnError(fn[attempts].kind, attempts))

\* five failures of different kinds: the fifth is the one raised
C2_Witness ==
    /\ attempts = 5 /\ rpc = "done" /\ Len(calls) = 5
    /\ fn[1].kind = "notfound" /\ fn[5].kind = "transient"
    /\ outcome = Raised(FnError("transient", 5))

\* C3: attempts = 0 is rejected: fn is never called, nothing is slept, and
\* the call ends by raising the RuntimeError of the wrapper; it never
\* returns a value.
C3_ZeroAttemptsRaises ==
    attempts = 0 =>
        /\ calls = <<>> /\ delays = <<>>
        /\ outcome.kind # "returned"
        /\ rpc = "done" => outcome = Raised(UnknownRuntimeError)

C3_Witness == attempts = 0 /\ rpc = "done" /\ outcome.kind = "raised"

\* C4: a not-found failure of the remote call is not retried: fetch_values
\* and list_sheet_titles surface it after exactly one underlying call.
C4_NotFoundNotRetried ==
    (caller \in {"fetch_values", "list_sheet_titles"} /\ fn[1].kind = "notfound")
    => /\ Len(calls) <= 1
       /\ rpc = "done" => fetch_values = Raised(FnError("notfound", 1))


(* ---------------------------------------------------------------------- *)
(* Claims about values_to_dataframe (checked under SpecNorm)               *)
(* ---------------------------------------------------------------------- *)
\* the length of the longest input row
LongestRow == CHOOSE n \in 0..(MaxCols + 1) :
                 /\ \A r \in 1..Len(values) : Len(values[r]) <= n
                 /\ \E r \in 1..Len(values) : Len(values[r]) = n
\* the table has a header row: its labels are strings, not positions
TableHasHeader == Len(df.columns) > 0 /\ df.columns[1].t = "str"
\* the rows of the table, the header row included, as raw strings
TableRows ==
    LET raw(row) == [j \in 1..Len(row) |-> row[j].s]
        body == [r \in 1..Len(df.data) |-> raw(df.data[r])]
    IN IF TableHasHeader THEN <<raw(df.columns)>> \o body ELSE body

\* C9: for a non-empty list of raw rows, every row of the table (the header
\* row included) is as long as the longest input row; shorter rows are padded
\* on the right with empty strings, existing cells keep position and value,
\* and padding a rectangular input (the table's own rows) changes nothing.
C9_RowsPaddedToLongest ==
    (npc = "done" /\ values # <<>>) =>
        /\ Len(TableRows) = Len(values)
        /\ \A r \in 1..Len(values) :
              /\ Len(TableRows[r]) = LongestRow
              /\ \A j \in 1..LongestRow :
                    TableRows[r][j] = IF j <= Len(values[r]) THEN values[r][j] ELSE <<>>
        /\ values_to_dataframe(TableRows) = df

\* a ragged input whose first row is the shortest
C9_Witness ==
    /\ npc = "done" /\ Len(values) = 2
    /\ Len(values[1]) = 1 /\ Len(values[2]) = 3
    /\ Len(TableRows[1]) = 3

\* C10: the first row, padded to the maximum row length, is the header iff
\* it has a non-empty cell and its cells are pairwise distinct; with a header
\* the table has the other n-1 rows under those labels, otherwise all n rows
\* under the positional labels 0..max_len-1.
C10_HeaderIffDistinctNonEmpty ==
    (npc = "done" /\ values # <<>>) =>
        LET first == [j \in 1..LongestRow |->
                         IF j <= Len(values[1]) THEN values[1][j] ELSE <<>>]
            distinct == \A j, k \in 1..LongestRow : j # k => first[j] # first[k]
            nonempty == \E j \in 1..LongestRow : first[j] # <<>>
        IN IF nonempty /\ distinct
           THEN /\ df.columns = [j \in 1..LongestRow |-> Str(first[j])]
                /\ Len(df.data) = Len(values) - 1
                /\ \A r \in 1..Len(df.data) : \A j \in 1..Len(values[r + 1]) :
                      df.data[r][j] = Str(values[r + 1][j])
           ELSE /\ df.columns = [j \in 1..LongestRow |-> IntLabel(j - 1)]
                /\ Len(df.data) = Len(values)
                /\ \A r \in 1..Len(df.data) : \A j \in 1..Len(values[r]) :
                      df.data[r][j] = Str(values[r][j])

\* the spec's example: the first row A, B, A gives the columns 0, 1, 2
C10_Witness ==
    /\ npc = "done"
    /\ Len(values) = 2 /\ values[1] = << <<"A">>, <<"B">>, <<"A">> >>
    /\ df.columns = <<IntLabel(0), IntLabel(1), IntLabel(2)>>
    /\ Len(df.data) = 2

\* a header row made distinct by the padding itself: A plus one empty cell
C10_WitnessHeader ==
    /\ npc = "done"
    /\ Len(values) = 2 /\ values[1] = << <<"A">> >> /\ Len(values[2]) = 2
    /\ df.columns = <<Str(<<"A">>), Str(<<>>)>>
    /\ Len(df.data) = 1


(* ---------------------------------------------------------------------- *)
(* Claims about GoogleSheetsConnector (checked under SpecConn)             *)
(* ---------------------------------------------------------------------- *)
AllKeys == {_get_cache_key(sh) : sh \in SheetNames}
\* the call took the fetch path (remote request or sample generator)
TookFetchPath(c) == c.source \in {"remote", "sample"}

\* C5: a get_sheet_data call with use_cache=True returns the cached table
\* only if the entry was written less than cache_ttl seconds before the
\* read; an entry whose age has reached cache_ttl is never returned, the
\* read takes the fetch path; a call with use_cache=False never reads it.
C5_CachedOnlyWhenFresh ==
    \A n \in 1..Len(log) :
        LET c == log[n]
            age == c.at - c.found.timestamp
        IN /\ c.source = "cache" =>
                /\ c.use_cache
                /\ c.found # NoEntry
                /\ age < cache_ttl
                /\ c.result = [kind |-> "returned", data |-> c.found.data, err |-> "None"]
           /\ (c.use_cache /\ c.found # NoEntry /\ age >= cache_ttl) => TookFetchPath(c)

\* a read of an entry exactly cache_ttl seconds old takes the fetch path
C5_Witness ==
    \E n \in 1..Len(log) :
        /\ log[n].use_cache /\ log[n].found # NoEntry
        /\ log[n].at - log[n].found.timestamp = cache_ttl
        /\ log[n].source = "remote"

\* a read of an entry one second younger is served from the cache
C5_WitnessFresh ==
    \E n \in 1..Len(log) :
        /\ log[n].use_cache /\ log[n].found # NoEntry
        /\ log[n].at - log[n].found.timestamp = cache_ttl - 1
        /\ log[n].source = "cache"

\* C6: the cache is written only by the fetch path: an entry is added or
\* replaced only by a get_sheet_data call with use_cache=True whose fetch
\* completed, for its own key and with the data it returns; a call served
\* from the cache, a call with use_cache=False and a call whose fetch
\* raised change no entry; only refresh_cache removes entries.
C6_CacheWrittenOnlyByFetch ==
    [][ /\ \A k \in AllKeys :
              Entry(cache', k) # Entry(cache, k) =>
                 \/ ret'.op = "refresh_cache" /\ cache' = EmptyCache
                 \/ \E n \in 1..Len(log') :
                       /\ log'[n].key = k
                       /\ log'[n].use_cache
                       /\ TookFetchPath(log'[n])
                       /\ log'[n].failure = "None"
                       /\ k \in DOMAIN cache'
                       /\ cache'[k].data = log'[n].result.data
        /\ (\E k \in DOMAIN cache : k \notin DOMAIN cache') => ret'.op = "refresh_cache"
      ]_vars

\* a completed fetch with use_cache=True has replaced an older entry
C6_Witness ==
    /\ ret.op = "get_sheet_data"
    /\ log[1].use_cache /\ log[1].source = "remote" /\ log[1].failure = "None"
    /\ log[1].found # NoEntry
    /\ cache[log[1].key].timestamp > log[1].found.timestamp
    /\ cache[log[1].key].data = log[1].result.data

\* C7: a fetch that truly failed (connection, quota, unknown tab) is never
\* reported to the caller as an empty table: the caller sees an error.
C7_FailureNeverEmptyTable ==
    \A n \in 1..Len(log) :
        log[n].failure # "None" => log[n].result.kind = "raised"

\* C8: one refresh either fetches every requested sheet or fails as a whole
\* with one exception; it never hands on a result in which some sheets
\* failed and were replaced by empty tables.
C8_RefreshAllOrNothing ==
    ret.op = "get_all_sheets" =>
        \/ \A n \in 1..Len(log) : log[n].failure = "None"
        \/ ret.result.kind = "raised"

(* ---------------------------------------------------------------------- *)
(* Claims about the loaders and the cleaning (checked under SpecIngest)    *)
(* ---------------------------------------------------------------------- *)
LoadDone == lpc = "done" /\ fetched.kind = "returned"
\* the table handed back
OutDf == sheet.value.df
\* the table before the labels are canonicalized and the columns coerced
InDf ==
    IF loader \in Cleaners
    THEN (IF fetched.value = <<>> THEN EmptyDataFrame ELSE DataFrameOf(fetched.value))
    ELSE values_to_dataframe(fetched.value)

\* C11: an empty input (no rows at all) gives an empty table with zero rows
\* and zero columns, without raising: from values_to_dataframe and from
\* every loader built on it.
C11_EmptyInputEmptyTable ==
    (lpc = "done" /\ fetched = Returned(<<>>))
        => /\ sheet.kind = "returned"
           /\ Len(OutDf.columns) = 0
           /\ Len(OutDf.data) = 0
           /\ values_to_dataframe(fetched.value) = [columns |-> <<>>, data |-> <<>>]
C11_Witness ==
    /\ lpc = "done" /\ fetched = Returned(<<>>) /\ loader = "load_month_activity"
    /\ sheet.kind = "returned"

\* the text of the cell of the input table that the output cell (r, j)
\* comes from (no row is dropped: every input cell is a string)
InText(r, j) == InDf.data[r][j].s
HasDigit(str) == \E k \in 1..Len(str) : IsDigit(str[k])
\* a text that is a number as it stands: digits only
PlainNumeral(str) == str # <<>> /\ AllDigits(str)
\* the columns a loader designates for numeric coercion, by canonical label
MonthColumnSet == {MonthColumns[k] : k \in 1..Len(MonthColumns)}
IntColumnSet == {IntColumns[k] : k \in 1..Len(IntColumns)}
FloatColumnSet == {FloatColumns[k] : k \in 1..Len(FloatColumns)}
Designated(j) ==
    LET label == OutDf.columns[j].s
    IN CASE loader = "load_patient_count" -> label \in MonthColumnSet
         [] loader = "load_utilization" -> \E k \in UtilizationKeys : Contains(label, k)
         [] loader = "load_month_activity" -> label \in IntColumnSet \cup FloatColumnSet
         [] loader = "_clean_dataframe" ->
                /\ Strip(label) # <<>>
                /\ \A k \in 1..Len(OutDf.columns) : k # j => OutDf.columns[k] # OutDf.columns[j]
         [] OTHER -> FALSE
\* the columns of the input table (the ones before an added date_parsed)
InColumns == 1..Len(InDf.columns)
OutRows == 1..Len(OutDf.data)
\* the column is coerced: always by a loader, by the cleaning when one of
\* its cells parses
Coerced(j) ==
    /\ Designated(j)
    /\ loader \in Cleaners => \E r \in OutRows : PlainNumeral(InText(r, j))

sNinetyFive == <<"9", "5">>
NonNumericText(str) == str # <<>> /\ ~HasDigit(str)
\* C13: a column designated for numeric coercion whose cells are all
\* non-numeric strings is left exactly as it was (raw strings), not turned
\* into a column of missing values.
C13_AllNonNumericLeftRaw ==
    LoadDone =>
        \A j \in InColumns :
            (Designated(j) /\ OutRows # {}
                /\ \A r \in OutRows : NonNumericText(InText(r, j)))
            => \A r \in OutRows : OutDf.data[r][j] = InDf.data[r][j]

\* C14: '$', '%' and ',' are stripped before parsing: in every designated
\* numeric column a cell such as "1,234", "$50" or "95%" coerces to its
\* number (1234, 50, 95), not to missing.
C14_SymbolsStripped ==
    LoadDone =>
        \A j \in InColumns : Designated(j) =>
            \A r \in OutRows :
                PlainNumeral(RemoveChars(InText(r, j), {"$", "%", ","}))
                    => OutDf.data[r][j] =
                          Num(DigitsValue(RemoveChars(InText(r, j), {"$", "%", ","})), 0)

\* the canonical form of a label text, character by character
IsCanonicalOf(out, text) ==
    LET t == Strip(text)
    IN /\ Len(out) = Len(t)
       /\ \A k \in 1..Len(t) : out[k] = IF t[k] = " " THEN "_" ELSE LowerChar(t[k])
       /\ \A k \in 1..Len(out) : out[k] # " " /\ ~IsUpper(out[k])
       /\ out # <<>> => ~IsSpace(out[1]) /\ ~IsSpace(out[Len(out)])
\* C16: every loader canonicalizes every column label, designated or not:
\* stripped, lower-cased, inner spaces replaced by underscores; the columns
\* keep their number and order (load_month_activity then adds date_parsed
\* after them) and canonicalizing a second time changes no label.
C16_LabelsCanonical ==
    (LoadDone /\ loader \in Loaders) =>
        /\ \A j \in InColumns :
              /\ OutDf.columns[j].t = "str"
              /\ IsCanonicalOf(OutDf.columns[j].s, LabelStr(InDf.columns[j]))
        /\ Len(OutDf.columns) =
              Len(InDf.columns)
              + (IF loader = "load_month_activity"
                    /\ \E j \in InColumns : OutDf.columns[j].s = sDate
                 THEN 1 ELSE 0)
        /\ \A j \in 1..Len(OutDf.columns) :
              /\ IsCanonicalOf(OutDf.columns[j].s, OutDf.columns[j].s)
              /\ Canonical(OutDf.columns[j]) = OutDf.columns[j]
\* " Avg " has become "avg" and "Scribe Hours" "scribe_hours"
sAvgRaw == <<" ", "A", "v", "g", " ">>
sAvg == <<"a", "v", "g">>
sScribeHours == <<"s", "c", "r", "i", "b", "e", "_", "h", "o", "u", "r", "s">>
C16_Witness ==
    /\ LoadDone /\ loader = "load_dataset" /\ Len(InDf.columns) = 2
    /\ InDf.columns[1] = Str(sAvgRaw) /\ OutDf.columns[1] = Str(sAvg)
C16_WitnessInner ==
    /\ LoadDone /\ loader = "load_dataset" /\ Len(InDf.columns) = 2
    /\ OutDf.columns[1] = Str(sScribeHours) /\ Len(OutDf.data) > 0

(* ---------------------------------------------------------------------- *)
(* Claims about _parse_date_safe (checked under SpecDate)                  *)
(* ---------------------------------------------------------------------- *)
\* the reading of the k-th pattern (day/month/2-digit year, ISO
\* year-month-day, US month/day/4-digit year), NA if it rejects the text
Reading(k) == Strptime(date_x, DateFormats[k])
sDMY == <<"2", "5", "/", "1", "2", "/", "2", "3">>
sISO == <<"2", "0", "2", "3", "-", "1", "2", "-", "2", "5">>
sUS == <<"1", "2", "/", "2", "5", "/", "2", "0", "2", "3">>
sFeb29 == <<"2", "9", "/", "0", "2", "/", "2", "3">>
\* C15: the patterns are tried in the fixed order day/month/2-digit-year,
\* ISO year-month-day, US month/day/4-digit-year; the result is the reading
\* of the first pattern that accepts the cell, and a cell accepted by none
\* becomes missing without an exception.
C15_FirstPatternWins ==
    dpc = "done" =>
        /\ \A k \in 1..3 :
              (Reading(k) # NA /\ \A n \in 1..(k - 1) : Reading(n) = NA)
                  => parsed = Reading(k)
        /\ (\A k \in 1..3 : Reading(k) = NA) => parsed = NA
        /\ date_x \in {sDMY, sISO, sUS} => parsed = Date(2023, 12, 25)
        /\ date_x = sFeb29 => parsed = NA
\* the third pattern gave the date after the first two rejected the cell
C15_Witness ==
    /\ dpc = "done" /\ parsed # NA
    /\ Reading(1) = NA /\ Reading(2) = NA /\ Reading(3) = parsed
\* no pattern accepted the cell
C15_WitnessMissing ==
    /\ dpc = "done" /\ parsed = NA /\ Len(date_x) = 8 /\ date_x = sFeb29

(* ---------------------------------------------------------------------- *)
(* Claims about DataProcessor (checked under SpecProc)                     *)
(* ---------------------------------------------------------------------- *)
\* the constructor has run and stored the provider table of a non-empty
\* 'Patient Count' tab
ProvidersDone ==
    /\ component = "processor" /\ ppc = "done"
    /\ "providers" \in DOMAIN processed_data
    /\ ~DfEmpty(processed_data["providers"])
Providers == processed_data["providers"]
\* the Patient Count cells of the rows of a provider in the tab handed in
PatientCounts(key) ==
    GroupSeries(raw_data["Patient Count"], ColumnIndex(raw_data["Patient Count"], sProvider),
                key, ColumnIndex(raw_data["Patient Count"], sPatientCount))
\* the Consistency_Score of the k-th row of the provider table
ScoreAt(k) == Providers.data[k][ColumnIndex(Providers, sConsistencyScore)]
\* the score the formula gives a group: 100 - (std / mean * 100) of the
\* statistics as the table holds them (two decimals), and 100 when the
\* mean is zero or missing or when there is no std (fewer than two values)
FormulaScore(series) ==
    LET mean == Round2(SeriesMean(series))
        std == StdRound2(series)
    IN IF mean = NA \/ std = NA THEN Rat(100, 1)
       ELSE IF mean.m = 0 THEN Rat(100, 1)
       ELSE RatSub(Rat(100, 1), RatMul(RatDiv(std, mean), Rat(100, 1)))
\* C17: for every provider group Consistency_Score is 100 - (std/mean * 100)
\* of the group's Patient Count values, and a group whose mean is zero or
\* missing has a score of exactly 100: never an infinite or a missing score.
C17_ScoreFormulaOr100 ==
    ProvidersDone =>
        \A k \in 1..Len(Providers.data) :
            /\ ScoreAt(k).t = "rat"
            /\ ScoreAt(k) = FormulaScore(PatientCounts(Providers.data[k][1]))

\* all the numbers of a series are the same number, and there is one
ZeroVariance(series) ==
    /\ Numbers(series) # <<>>
    /\ \A a, b \in 1..Len(Numbers(series)) : Numbers(series)[a] = Numbers(series)[b]
\* C18: a provider group whose Patient Count values are all equal (all 80,
\* say) has a Consistency_Score of exactly 100.
C18_ZeroVarianceScore100 ==
    ProvidersDone =>
        \A k \in 1..Len(Providers.data) :
            ZeroVariance(PatientCounts(Providers.data[k][1])) => ScoreAt(k) = Rat(100, 1)
\* a provider with several rows, all of 80 patients, has the score 100
C18_Witness ==
    /\ ProvidersDone
    /\ \E k \in 1..Len(Providers.data) :
          /\ Len(PatientCounts(Providers.data[k][1])) >= 2
          /\ \A n \in 1..Len(PatientCounts(Providers.data[k][1])) :
                PatientCounts(Providers.data[k][1])[n] = Num(80, 0)
          /\ ScoreAt(k) = Rat(100, 1)
\* a provider with a single row has the score 100 (its std is missing)
C18_WitnessSingle ==
    /\ ProvidersDone
    /\ \E k \in 1..Len(Providers.data) :
          /\ Len(PatientCounts(Providers.data[k][1])) = 1
          /\ ZeroVariance(PatientCounts(Providers.data[k][1]))
          /\ ScoreAt(k) = Rat(100, 1)
\* a provider whose values are all 0 has the score 100 (0 / 0 is missing)
C18_WitnessZeros ==
    /\ ProvidersDone
    /\ \E k \in 1..Len(Providers.data) :
          /\ Len(PatientCounts(Providers.data[k][1])) >= 2
          /\ \A n \in 1..Len(PatientCounts(Providers.data[k][1])) :
                PatientCounts(Providers.data[k][1])[n] = Num(0, 0)
          /\ ScoreAt(k) = Rat(100, 1)

\* the rows handed in as the 'Dataset' tab, and the scribe table stored
ScribesDone ==
    /\ component = "processor" /\ ppc = "done"
    /\ "scribes" \in DOMAIN processed_data
    /\ ~DfEmpty(raw_data["Dataset"])
Dataset == raw_data["Dataset"]
Scribes == processed_data["scribes"]
\* the cell of row r under a label of the scribe table
ScribeCell(r, label) == Scribes.data[r][ColumnIndex(Scribes, label)]
\* the team key of entity row r: its 'Team Leader' cell, 'Unknown' when
\* the tab has no such column
TeamKey(r) ==
    IF HasColumn(Dataset, sTeamLeader) THEN Dataset.data[r][ColumnIndex(Dataset, sTeamLeader)]
    ELSE Str(sUnknown)
\* the cell of entity row r under a label of the tab, the fallback when the
\* tab has no such column
EntityCell(r, label, fallback) ==
    IF HasColumn(Dataset, label) THEN Dataset.data[r][ColumnIndex(Dataset, label)]
    ELSE fallback
\* the cells under a label of the entity rows whose key is exactly the key
\* of row r
TeamSeries(r, label, fallback) ==
    LET mates == KeepIdx([q \in 1..Len(Dataset.data) |-> EntityCell(q, label, fallback)],
                         [q \in 1..Len(Dataset.data) |-> TeamKey(q) = TeamKey(r)])
    IN mates
\* C20: the join of the team values is a left join on exact equality of the
\* team key: the scribe table has exactly one row per entity row of the tab,
\* in order and with the row's own cells unchanged; the team values of a row
\* are those of the rows with exactly the same key, and a row whose key
\* matches no group keeps its place with missing team values.
C20_LeftJoinKeepsEveryRow ==
    ScribesDone =>
        /\ Len(Scribes.data) = Len(Dataset.data)
        /\ \A r \in 1..Len(Dataset.data) :
              /\ \A c \in 1..Len(Dataset.columns) :
                    /\ Scribes.columns[c] = Dataset.columns[c]
                    /\ Scribes.data[r][c] = Dataset.data[r][c]
              /\ TeamKey(r) # NA =>
                    /\ ScribeCell(r, sEfficiencyScore \o sTeamAvg)
                          = SeriesMean(TeamSeries(r, sEfficiencyScore, NA))
                    /\ ScribeCell(r, sMonthlyPatients \o sTeamAvg)
                          = SeriesSum(TeamSeries(r, sMonthlyPatients, Num(0, 0)))
              /\ TeamKey(r) = NA =>
                    /\ ScribeCell(r, sEfficiencyScore \o sTeamAvg) = NA
                    /\ ScribeCell(r, sMonthlyPatients \o sTeamAvg) = NA
                    /\ ScribeCell(r, sProviderRating \o sTeamAvg) = NA
\* an entity without team key is kept, with its own values and missing team
\* values, next to an entity of team T
C20_Witness ==
    /\ ScribesDone /\ Len(Scribes.data) = 2
    /\ \E r, q \in 1..Len(Dataset.data) :
          /\ TeamKey(r) = NA /\ TeamKey(q) = Str(<<"T">>)
          /\ ScribeCell(r, sEfficiencyScore) = Num(95, 0)
          /\ ScribeCell(r, sEfficiencyScore \o sTeamAvg) = NA
          /\ ScribeCell(q, sEfficiencyScore \o sTeamAvg) # NA
\* keys that differ in case only are different teams
C20_WitnessCase ==
    /\ ScribesDone /\ Len(Scribes.data) = 2
    /\ TeamKey(1) = Str(<<"T">>) /\ TeamKey(2) = Str(<<"t">>)
    /\ ScribeCell(1, sMonthlyPatients \o sTeamAvg) = Rat(100, 1)
    /\ ScribeCell(2, sMonthlyPatients \o sTeamAvg) = Rat(60, 1)

(* ---------------------------------------------------------------------- *)
(* Claims about the tier functions (checked under SpecTier)                *)
(* ---------------------------------------------------------------------- *)
\* the thresholds of a tier function, ascending and in tenths, and its
\* tiers from the lowest to the highest
Thresholds(f) ==
    CASE f = "_categorize_performance" -> <<800, 900, 950>>
      [] f = "_categorize_workload" -> <<700, 1000>>
      [] f = "_categorize_experience" -> <<100, 150>>
      [] f = "_categorize_rating" -> <<35, 40, 45>>
Ladder(f) ==
    CASE f = "_categorize_performance" ->
             <<Str(sNeedsImprovement), Str(sFair), Str(sGood), Str(sExcellent)>>
      [] f = "_categorize_workload" -> <<Str(sLow), Str(sMedium), Str(sHigh)>>
      [] f = "_categorize_experience" -> <<Str(sJunior), Str(sIntermediate), Str(sSenior)>>
      [] f = "_categorize_rating" ->
             <<Str(sPoor), Str(sFair), Str(sGood), Str(sExcellent)>>
\* the place of a category on the ladder of f
Rank(f, category) == CHOOSE k \in 1..Len(Ladder(f)) : Ladder(f)[k] = category
\* the number of thresholds of f that the number v reaches
Reached(f, v) == Cardinality({k \in 1..Len(Thresholds(f)) : AtLeast(v, Thresholds(f)[k])})
\* a <= b for two numbers
NumLeq(a, b) == RatOf(a).m * RatOf(b).e <= RatOf(b).m * RatOf(a).e
C19_WitnessUnknown ==
    /\ tpc = "done" /\ tier_fn = "_categorize_workload"
    /\ tier_arg = NA /\ tier = Str(sUnknown)

(* ---------------------------------------------------------------------- *)
(* Claims about the delays of _with_retries (checked under SpecRetry)      *)
(* ---------------------------------------------------------------------- *)
\* min(max_delay, base_delay * 2^n) in milliseconds: the capped
\* exponential value after the failed attempt number n (from 0)
CappedExponential(n) ==
    IF base_delay * Pow2(n) <= max_delay THEN base_delay * Pow2(n) ELSE max_delay
\* C26: the sleep after the failed attempt number n (counted from 0) is
\* min(max_delay, base_delay * 2^n) times a jitter factor within
\* [0.7, 1.3]: it lies between 0.7 and 1.3 times the capped exponential
\* value and never exceeds 1.3 * max_delay.
C26_DelayCappedAndJittered ==
    \A k \in 1..Len(delays) :
        /\ delays[k] % CappedExponential(k - 1) = 0
        /\ delays[k] \div CappedExponential(k - 1) \in 700..1300
        /\ 700 * CappedExponential(k - 1) <= delays[k]
        /\ delays[k] <= 1300 * CappedExponential(k - 1)
        /\ delays[k] <= 1300 * max_delay
\* the fifth failure: base_delay * 2^4 is above max_delay and the sleep is
\* max_delay times the jitter
C26_Witness ==
    /\ Len(delays) = 5
    /\ base_delay * Pow2(4) > max_delay
    /\ delays[5] >= 700 * max_delay
    /\ delays[1] <= 1300 * base_delay

\* C28: the wrapper sleeps only between attempts: an operation that fails
\* all N attempts incurs exactly N-1 sleeps, and its final exception is
\* raised without a further delay.
C28_SleepsOnlyBetweenAttempts ==
    (rpc = "done" /\ outcome.kind = "raised" /\ attempts >= 1)
        => Len(delays) = attempts - 1

(* ---------------------------------------------------------------------- *)
(* Claims about the rate limit (checked under SpecConn)                    *)
(* ---------------------------------------------------------------------- *)
\* the calls of a log that issued a remote request
Requests(calls_made) == {n \in 1..Len(calls_made) : calls_made[n].source = "remote"}
\* the time of the request before the n-th call of a log: that of the
\* latest earlier request of the log, else the connector's
\* last_request_time when the operation began
PreviousRequest(calls_made, n, before) ==
    IF \E p \in Requests(calls_made) : p < n
    THEN calls_made[CHOOSE p \in Requests(calls_made) :
                        p < n /\ \A o \in Requests(calls_made) : o < n => o <= p].request_at
    ELSE before
\* C29: two consecutive remote worksheet requests of one connector are at
\* least min_request_interval apart: each request is made no earlier than
\* that interval after the previous one and its time becomes
\* last_request_time; a read served from the cache or from the sample data
\* issues no request and leaves last_request_time as it was.
C29_RequestsSpaced ==
    [][ /\ \A n \in 1..Len(log') :
              IF n \in Requests(log')
              THEN /\ log'[n].request_at
                        - PreviousRequest(log', n, last_request_time) >= min_request_interval
                   /\ log'[n].request_at >= log'[n].at
              ELSE log'[n].request_at = -1
        /\ last_request_time' = PreviousRequest(log', Len(log') + 1, last_request_time)
      ]_vars
\* a request that had to wait: the one before it was made in the same
\* second, and it is made min_request_interval later
C29_Witness ==
    \E n \in 1..Len(log) :
        /\ n > 1 /\ log[n].source = "remote" /\ log[n - 1].source = "remote"
        /\ log[n].at = log[n - 1].request_at
        /\ log[n].request_at = log[n - 1].request_at + min_request_interval
        /\ last_request_time >= log[n].request_at
\* a read served from the cache after a request: last_request_time is
\* still the time of that request
C29_WitnessCached ==
    /\ ret.op = "get_sheet_data" /\ log[1].source = "cache"
    /\ last_request_time > 0 /\ last_request_time <= clock

(* ---------------------------------------------------------------------- *)
(* Claims about load_settings (checked under SpecSettings)                 *)
(* ---------------------------------------------------------------------- *)
\* REFRESH_SECS as set in the environment
RefreshSecsEnv == environ["REFRESH_SECS"]
\* the text, without the blanks around it, is an integer: an optional sign
\* and digits
IsIntegerText(text) ==
    LET t == Strip(text)
        body == IF t # <<>> /\ Head(t) \in {"+", "-"} THEN Tail(t) ELSE t
    IN body # <<>> /\ \A k \in 1..Len(body) : body[k] \in {"0", "1", "2", "3", "4", "5", "6", "7", "8", "9"}
\* the integer written by an integer text
IntegerOf(text) == IntOf(text).m
\* C27: load_settings returns a refresh interval within [2, 60] seconds for
\* every value of REFRESH_SECS: an integer below 2 gives 2, an integer above
\* 60 gives 60, an integer in range is kept, and an unset or non-integer
\* value gives the default 5.
C27_RefreshClamped ==
    spc = "done" =>
        /\ settings.refresh_secs >= 2 /\ settings.refresh_secs <= 60
        /\ IF RefreshSecsEnv = NA \/ ~IsIntegerText(RefreshSecsEnv.s)
           THEN settings.refresh_secs = 5
           ELSE /\ IntegerOf(RefreshSecsEnv.s) < 2 => settings.refresh_secs = 2
                /\ IntegerOf(RefreshSecsEnv.s) > 60 => settings.refresh_secs = 60
                /\ IntegerOf(RefreshSecsEnv.s) \in 2..60
                      => settings.refresh_secs = IntegerOf(RefreshSecsEnv.s)
\* REFRESH_SECS=-3 gives 2
C27_Witness ==
    /\ spc = "done" /\ RefreshSecsEnv = Str(<<"-", "3">>) /\ settings.refresh_secs = 2
\* REFRESH_SECS=100 gives 60
C27_WitnessAbove ==
    /\ spc = "done" /\ RefreshSecsEnv = Str(<<"1", "0", "0">>) /\ settings.refresh_secs = 60
\* REFRESH_SECS=5.5 gives the default
C27_WitnessDefault ==
    /\ spc = "done" /\ RefreshSecsEnv = Str(<<"5", ".", "5">>) /\ settings.refresh_secs = 5

(* ---------------------------------------------------------------------- *)
(* Claims about the session table (checked under SpecProc)                 *)
(* ---------------------------------------------------------------------- *)
\* the constructor has run and stored the session table
SessionsDone ==
    /\ component = "processor" /\ ppc \in {"done", "rebuilt"}
    /\ "sessions" \in DOMAIN processed_data
Sessions == processed_data["sessions"]
\* the monthly sheets of the input that are there with columns and rows,
\* in the order of monthly_sheets
NonEmptyMonths ==
    SelectSeq(MonthlySheets,
              LAMBDA month : /\ month \in DOMAIN raw_data
                             /\ Len(raw_data[month].columns) > 0
                             /\ Len(raw_data[month].data) > 0)
RECURSIVE RowsOfMonths(_)
\* the number of rows of the first k of these sheets together
RowsOfMonths(k) ==
    IF k = 0 THEN 0 ELSE RowsOfMonths(k - 1) + Len(raw_data[NonEmptyMonths[k]].data)
\* C21: the session table is the union of the monthly sheets, each labelled
\* before the concatenation with a 'Month' column equal to its own label:
\* it holds exactly the rows of the non-empty monthly sheets of the input
\* (row count = sum of their row counts), and every row carries the label
\* of the sheet it came from next to the sheet's own cells.
C21_UnionLabelledByMonth ==
    SessionsDone =>
        /\ Len(Sessions.data) = RowsOfMonths(Len(NonEmptyMonths))
        /\ NonEmptyMonths = <<>> => Sessions = EmptyDataFrame
        /\ \A k \in 1..Len(NonEmptyMonths) :
              \A q \in 1..Len(raw_data[NonEmptyMonths[k]].data) :
                 /\ HasColumn(Sessions, sMonth)
                 /\ Sessions.data[RowsOfMonths(k - 1) + q][ColumnIndex(Sessions, sMonth)]
                       = Str(MonthText(NonEmptyMonths[k]))
                 /\ \A c \in 1..Len(raw_data[NonEmptyMonths[k]].columns) :
                       raw_data[NonEmptyMonths[k]].columns[c] # Str(sMonth)
                       => Sessions.data[RowsOfMonths(k - 1) + q]
                              [ColumnIndex(Sessions, raw_data[NonEmptyMonths[k]].columns[c].s)]
                            = raw_data[NonEmptyMonths[k]].data[q][c]
\* two rows of August and one of July, whose columns differ, are unioned:
\* three rows, the third labelled July
C21_Witness ==
    /\ SessionsDone
    /\ NonEmptyMonths = <<"August", "July">>
    /\ Len(raw_data["August"].data) = 2 /\ Len(raw_data["July"].data) = 1
    /\ raw_data["July"].columns # raw_data["August"].columns
    /\ Len(Sessions.data) = 3
    /\ Sessions.data[1][ColumnIndex(Sessions, sMonth)] = Str(MonthText("August"))
    /\ Sessions.data[3][ColumnIndex(Sessions, sMonth)] = Str(MonthText("July"))
\* a sheet that has a 'Month' column of its own gets it overwritten, and a
\* sheet without rows adds nothing
C21_WitnessOwnMonth ==
    /\ SessionsDone
    /\ NonEmptyMonths = <<"July">> /\ "August" \in DOMAIN raw_data
    /\ HasColumn(raw_data["July"], sMonth)
    /\ Sessions.data[1][ColumnIndex(Sessions, sMonth)] = Str(MonthText("July"))

(* ---------------------------------------------------------------------- *)
(* Claims about the accessors (checked under SpecAccess)                   *)
(* ---------------------------------------------------------------------- *)
\* the table an accessor reads, NoTable when it was never built
NoTable == [columns |-> <<>>, data |-> <<>>]
TableOf(call) ==
    LET key == IF call = "get_scribe_performance" THEN "scribes" ELSE "providers"
    IN IF key \in DOMAIN processed_data THEN processed_data[key] ELSE NoTable
NameColumn(call) == IF call = "get_scribe_performance" THEN sScribe ELSE sProvider
\* the name is in no row of the table (there may be no such column, no row,
\* or no table)
NameAbsent(call, name) ==
    \/ ~HasColumn(TableOf(call), NameColumn(call))
    \/ \A r \in 1..Len(TableOf(call).data) :
          TableOf(call).data[r][ColumnIndex(TableOf(call), NameColumn(call))] # name
SingleEntityCalls == {"get_scribe_performance", "get_provider_analysis"}
\* C22: get_scribe_performance(name) and get_provider_analysis(name) return
\* an empty result when the name is absent from the aggregated table, also
\* when that table is empty or was never built, and never raise.
C22_AbsentNameEmptyResult ==
    \A n \in 1..Len(reads) :
        (reads[n].call \in SingleEntityCalls /\ Truthy(reads[n].arg))
            => /\ reads[n].result.kind = "returned"
               /\ NameAbsent(reads[n].call, reads[n].arg)
                     => Len(reads[n].result.value.data) = 0

\* C23: the accessors are idempotent reads: called any number of times and
\* in any order on the same snapshot they return identical results, and no
\* accessor call changes processed_data or raw_data.
C23_AccessorsIdempotent ==
    [][ /\ processed_data' = processed_data
        /\ raw_data' = raw_data
        /\ \A n, o \in 1..Len(reads') :
              (reads'[n].call = reads'[o].call /\ reads'[n].arg = reads'[o].arg)
                  => reads'[n].result = reads'[o].result
      ]_vars
\* get_summary_stats, then get_scribe_performance('A'), then
\* get_summary_stats again with the same non-empty result
C23_Witness ==
    /\ Len(reads) = 3
    /\ reads[1].call = "get_summary_stats" /\ reads[3].call = "get_summary_stats"
    /\ reads[2].call = "get_scribe_performance" /\ reads[2].arg = Str(<<"A">>)
    /\ reads[1].result.value # EmptyDict
    /\ reads[3].result = reads[1].result

\* the Patient Count cells of provider P in the 'Patient Count' tab
CountsOfP == PatientCounts(Str(<<"P">>))
\* the statistics computed directly from these cells: the sum, the mean,
\* the sample variance (the square of the standard deviation)
DirectSum == RatSum(Numbers(CountsOfP))
DirectMean == RatDiv(DirectSum, Rat(Len(Numbers(CountsOfP)), 1))
DirectVariance ==
    RatDiv(Deviation(Numbers(CountsOfP)),
           Rat(Len(Numbers(CountsOfP)) * (Len(Numbers(CountsOfP)) - 1), 1))
\* the record of provider P handed back by the accessor
RecordOfP(result) == result.value.data[1]
\* C24: the record returned by get_provider_analysis(P) equals, field for
\* field and without loss of precision, the sum, the mean, the standard
\* deviation and the consistency score computed directly from the rows of
\* P in the input table.
C24_RecordEqualsDirect ==
    \A n \in 1..Len(reads) :
        (/\ reads[n].call = "get_provider_analysis"
         /\ reads[n].arg = Str(<<"P">>)
         /\ reads[n].result.kind = "returned"
         /\ Len(reads[n].result.value.data) = 1
         /\ Len(Numbers(CountsOfP)) >= 2)
        => /\ RecordOfP(reads[n].result)[2] = DirectSum
           /\ RecordOfP(reads[n].result)[3] = DirectMean
           /\ RatMul(RecordOfP(reads[n].result)[4], RecordOfP(reads[n].result)[4])
                 = DirectVariance

C25_WitnessSessions ==
    /\ component = "processor" /\ ppc = "rebuilt"
    /\ "August" \in DOMAIN raw_data /\ ~DfEmpty(raw_data["August"])
    /\ ~HasColumn(raw_data["August"], sMonth)
    /\ HasColumn(processed_data["sessions"], sMonth)

\* the metrics were computed from a scribe table with rows
MetricsDone ==
    /\ component = "processor" /\ ppc \in {"done", "rebuilt"}
    /\ "metrics" \in DOMAIN processed_data
    /\ "team_comparison" \in DOMAIN processed_data["metrics"]
\* the per-team sums of 'Monthly Patients' in team_comparison
TeamSums == processed_data["metrics"]["team_comparison"][sMonthlyPatients]
RECURSIVE SumOver(_, _)
\* the sum of the values of a function over a set of its keys
SumOver(f, keys) ==
    IF keys = {} THEN Rat(0, 1)
    ELSE LET key == CHOOSE k \in keys : TRUE
         IN RatAdd(f[key], SumOver(f, keys \ {key}))
\* C30: the per-team 'Monthly Patients' sums of team_comparison add up to
\* total_monthly_patients: every scribe row is counted in exactly one team
\* total, a scribe whose Team Leader value is missing included.
C30_TeamSumsAddUp ==
    MetricsDone =>
        SumOver(TeamSums, DOMAIN TeamSums)
            = processed_data["metrics"]["total_monthly_patients"]

=============================================================================
